---- MODULE Spec2Model ----
(***************************************************************************)
(* A model of the netopsify.openziti deployment pipeline:                  *)
(*   - plugins/filter/openziti_filters.py   ziti_transform (the Compiler)  *)
(*   - plugins/modules/openziti_loader.py   main (Loader and Resolver)     *)
(*   - plugins/modules/openziti_router_policy.py   main (reconciliation    *)
(*     of one edge router policy against the controller)                   *)
(*                                                                         *)
(* Python values are represented as follows.                               *)
(*   dict        a function whose domain is a set of strings (a record)    *)
(*   list        a sequence                                                *)
(*   None/False  the records None and PyFalse, which no dict equals        *)
(*               because no dict of the program has the key "py"           *)
(*   str         names and role tokens, which the code takes apart and     *)
(*               puts together, are sequences of one-character strings;    *)
(*               strings the code only copies are TLA+ strings             *)
(***************************************************************************)
EXTENDS Integers, Sequences, FiniteSets, TLC

VARIABLES
    model,          \* the deployment model handed to ziti_transform (a dict or None)
    targets,        \* target_names: None, or [names |-> the set of listed names]
    out,            \* what the latest ziti_transform call returned (NoCall before any)
    prevOut,        \* what the call before the latest returned
    calls,          \* number of ziti_transform calls made
    defaultsRead,   \* whether the latest call evaluated deployment_data.get('defaults')
    hasGit,         \* <base_dir>/.git exists
    prev,           \* tree of revision HEAD~1: path -> file content
    head,           \* tree of revision HEAD
    work,           \* working tree
    staged,         \* whether the working tree's changes are in the index
    ops,            \* number of edits and commits made to the repository
    pc,             \* "idle" before the loader runs, "loaded" once a model is at
                    \* hand, "crashed" when the loader run ended in an exception
    smart,          \* the smart_mode parameter of the loader run
    queries,        \* the git commands the loader ran, in order
    warnings,       \* the warnings the loader emitted, in order
    changed_files,  \* the loader's changed_files set
    deleted_files,  \* the loader's deleted_files set
    recovered,      \* deleted path token -> content the loader recovered for it
    merged,         \* the fragments the loader passed to deep_merge, in order
    gitFails,       \* the git commands that exited non-zero on git's own account
                    \* during the loader run
    edge_router_policies,   \* the controller's edge router policies (a set of records)
    nextId,         \* the id the controller gives the next entity it creates
    params,         \* module.params of the latest openziti_router_policy run
    result,         \* what that run handed to exit_json or fail_json
    requests,       \* the HTTP requests that run sent, in order
    runs,           \* number of openziti_router_policy runs made
    accumulator,    \* the target that deep_merge is called with and updates
    document,       \* the source that deep_merge is called with
    ret,            \* what that call of deep_merge returned or raised
    store,          \* the entities the controller holds at each of the other endpoints
    typeAsReference \* whether the controller gives an identity's type as {id, name}

compileVars == <<model, targets, out, prevOut, calls, defaultsRead>>
repoVars == <<hasGit, prev, head, work, staged, ops>>
loaderVars ==
    <<pc, smart, queries, warnings, changed_files, deleted_files, recovered, merged,
      gitFails>>
controllerVars == <<edge_router_policies, nextId, params, result, requests, runs>>
mergeVars == <<accumulator, document, ret>>
storeVars == <<store, typeAsReference>>
vars == <<compileVars, repoVars, loaderVars, controllerVars, mergeVars, storeVars>>

---------------------------------------------------------------------------
(* Python values *)

None == [py |-> "None"]
PyFalse == [py |-> "False"]
EmptyMap == [k \in {} |-> TRUE]

IsNone(v) == "py" \in DOMAIN v /\ v.py = "None"
\* a test that takes no value for False
NeverFalse(v) == FALSE

IsFalse(v) == "py" \in DOMAIN v /\ v.py = "False"

\* `not v` for v a dict, None or False
Falsy(v) == IsNone(v) \/ IsFalse(v) \/ DOMAIN v = {}

\* `k in d`
Has(d, k) == k \in DOMAIN d

\* d.get(k, default)
Get(d, k, default) == IF Has(d, k) THEN d[k] ELSE default

\* `d.get(k) or []` where d[k], when present, is a list
GetList(d, k) == IF Has(d, k) THEN d[k] ELSE <<>>

\* `d.get(k) or {}` where d[k], when present, is a dict or None
GetMap(d, k) == IF Has(d, k) /\ ~Falsy(d[k]) THEN d[k] ELSE EmptyMap

\* d[k] = v
Set(d, k, v) == [x \in DOMAIN d \cup {k} |-> IF x = k THEN v ELSE d[x]]

\* del d[k]
Del(d, k) == [x \in DOMAIN d \ {k} |-> d[x]]

\* the elements of a list
Range(seq) == {seq[i] : i \in DOMAIN seq}

\* s.startswith(c) for a one-character c
startswith(s, c) == Len(s) > 0 /\ s[1] = c

\* s.lstrip('#'): every leading '#' is removed
RECURSIVE lstrip(_)
lstrip(s) == IF startswith(s, "#") THEN lstrip(Tail(s)) ELSE s

\* role attributes passed on with their '#'
KeepAll(roles) == roles

\* [r.lstrip('#') for r in roles]
StripAll(roles) == [i \in DOMAIN roles |-> lstrip(roles[i])]

\* f"#{r}"
HashPrefix(r) == <<"#">> \o r

\* role tokens passed on as they are declared
RolesAsDeclared(roles) == roles

\* the loop of lines 213-217: prefixed tokens are kept, others get '#'
NormRoles(roles) ==
    [i \in DOMAIN roles |->
        IF startswith(roles[i], "@") \/ startswith(roles[i], "#")
        THEN roles[i] ELSE HashPrefix(roles[i])]

HostSuffix == <<"-", "h", "o", "s", "t", "-", "v", "1">>
InterceptSuffix == <<"-", "i", "n", "t", "e", "r", "c", "e", "p", "t", "-", "v", "1">>
BindSuffix == <<"-", "b", "i", "n", "d">>
DialSuffix == <<"-", "d", "i", "a", "l">>
RouterSuffix == <<"-", "r", "o", "u", "t", "e", "r">>
HashAll == <<"#", "a", "l", "l">>

---------------------------------------------------------------------------
(* ziti_transform *)

\* the six empty lists of lines 74-81
EmptyOutput ==
    [openziti_identities |-> <<>>, openziti_configs |-> <<>>,
     openziti_services |-> <<>>, openziti_service_policies |-> <<>>,
     openziti_router_policies |-> <<>>, openziti_service_router_policies |-> <<>>]

\* a KeyError raised by x['name'] leaves the caller without a result
KeyError == [error |-> "KeyError"]
NoCall == [error |-> "not called"]
Failed(o) == "error" \in DOMAIN o

should_process(name, target_names) ==
    IF IsNone(target_names) \/ target_names.names = {} THEN TRUE
    ELSE name \in target_names.names

\* a record in which the tags lose their '#' as the role attributes do
IdentityRecordStripsTags(ident) ==
    [name |-> ident.name,
     type |-> Get(ident, "type", "Device"),
     role_attributes |->
        StripAll(GetList(ident, "role_attributes") \o GetList(ident, "tags")),
     enrollment_method |-> Get(ident, "enrollment_method", "ott"),
     state |-> Get(ident, "state", "present")]

\* lines 113-127
IdentityRecord(ident) ==
    [name |-> ident.name,
     type |-> Get(ident, "type", "Device"),
     role_attributes |->
        StripAll(GetList(ident, "role_attributes")) \o GetList(ident, "tags"),
     enrollment_method |-> Get(ident, "enrollment_method", "ott"),
     state |-> Get(ident, "state", "present")]

\* the loop of lines 106-127; st is the state of the running call
RECURSIVE IdentitiesLoop(_, _, _, _)
IdentitiesLoop(all_identities, i, target_names, st) ==
    IF i > Len(all_identities) THEN st
    ELSE LET ident == all_identities[i] IN
         IF Falsy(ident) THEN IdentitiesLoop(all_identities, i + 1, target_names, st)
         ELSE IF ~Has(ident, "name") THEN [st EXCEPT !.failed = TRUE]
         ELSE IF ~should_process(ident.name, target_names)
              THEN IdentitiesLoop(all_identities, i + 1, target_names, st)
         ELSE IdentitiesLoop(all_identities, i + 1, target_names,
                  [st EXCEPT !.identities = Append(@, IdentityRecord(ident))])

\* lines 148-150: host_data is svc['host'] itself, so the default is written into the model
HostData(host_data) ==
    IF Has(host_data, "protocol") THEN host_data
    ELSE Set(host_data, "protocol", "tcp")

\* a normalization that leaves the port key beside portRanges
NormPortKeepsKey(int_data) ==
    IF Has(int_data, "port")
    THEN Set(int_data, "portRanges",
             <<[low |-> int_data.port, high |-> int_data.port]>>)
    ELSE IF Has(int_data, "port_ranges")
    THEN Del(Set(int_data, "portRanges", int_data.port_ranges), "port_ranges")
    ELSE int_data

\* lines 166-171
NormPort(int_data) ==
    IF Has(int_data, "port")
    THEN Del(Set(int_data, "portRanges",
                 <<[low |-> int_data.port, high |-> int_data.port]>>), "port")
    ELSE IF Has(int_data, "port_ranges")
    THEN Del(Set(int_data, "portRanges", int_data.port_ranges), "port_ranges")
    ELSE int_data

NormProtocol(int_data) ==
    IF Has(int_data, "protocol")
    THEN Del(Set(int_data, "protocols", <<int_data.protocol>>), "protocol")
    ELSE IF ~Has(int_data, "protocols")
    THEN Set(int_data, "protocols", <<"tcp">>)
    ELSE int_data

NormAddress(int_data) ==
    IF Has(int_data, "address")
    THEN Del(Set(int_data, "addresses", <<int_data.address>>), "address")
    ELSE int_data

\* lines 163-183: int_data is svc['intercept'] itself, rewritten in place
InterceptData(int_data) == NormAddress(NormProtocol(NormPort(int_data)))

\* a host config for every service that has the key, whatever is under it
HasHostKey(svc) == Has(svc, "host")

\* `if svc.get('host')`, `if svc.get('intercept')`
HasHost(svc) == Has(svc, "host") /\ ~Falsy(svc.host)
HasIntercept(svc) == Has(svc, "intercept") /\ ~Falsy(svc.intercept)

\* the service entry as the call leaves it in the caller's model
MutatedService(svc) ==
    LET s1 == IF HasHost(svc) THEN Set(svc, "host", HostData(svc.host)) ELSE svc
    IN  IF HasIntercept(svc)
        THEN Set(s1, "intercept", InterceptData(svc.intercept)) ELSE s1

ServiceConfigs(svc) ==
    LET svc_state == Get(svc, "state", "present") IN
    (IF HasHost(svc)
     THEN <<[name |-> svc.name \o HostSuffix, type |-> "host.v1",
             data |-> HostData(svc.host), state |-> svc_state]>>
     ELSE <<>>)
    \o
    (IF HasIntercept(svc)
     THEN <<[name |-> svc.name \o InterceptSuffix, type |-> "intercept.v1",
             data |-> InterceptData(svc.intercept), state |-> svc_state]>>
     ELSE <<>>)

ServiceRecord(svc, default_encryption) ==
    LET raw_svc_role_attrs ==
            IF GetList(svc, "role_attributes") # <<>> THEN svc.role_attributes
            ELSE IF GetList(svc, "roles") # <<>> THEN svc.roles
            ELSE <<svc.name>>
        cfgs == ServiceConfigs(svc)
    IN  [name |-> svc.name,
         role_attributes |-> StripAll(raw_svc_role_attrs),
         configs |-> [i \in DOMAIN cfgs |-> cfgs[i].name],
         encryption_required |-> Get(svc, "encryption", default_encryption),
         state |-> Get(svc, "state", "present")]

\* lines 210-237 (Bind) and 241-268 (Dial)
PolicyRecord(svc, pol, suffix, type) ==
    LET id_roles ==
            NormRoles(GetList(pol, "roles")) \o
            (IF Has(pol, "identity") THEN <<HashPrefix(pol.identity)>> ELSE <<>>)
        extra_svc_roles == NormRoles(GetList(pol, "service_roles"))
    IN  [name |-> svc.name \o suffix,
         type |-> type,
         service_roles |-> <<HashPrefix(svc.name)>> \o extra_svc_roles,
         identity_roles |-> id_roles,
         semantic |-> Get(pol, "semantic", "AnyOf"),
         state |-> Get(svc, "state", "present")]

ServicePolicies(svc) ==
    LET policies == GetMap(svc, "policies") IN
    (IF Has(policies, "bind") /\ ~Falsy(policies.bind)
     THEN <<PolicyRecord(svc, policies.bind, BindSuffix, "Bind")>> ELSE <<>>)
    \o
    (IF Has(policies, "dial") /\ ~Falsy(policies.dial)
     THEN <<PolicyRecord(svc, policies.dial, DialSuffix, "Dial")>> ELSE <<>>)

\* lines 271-290
ServiceRouterPolicies(svc, default_router_roles, default_create_router_policies) ==
    LET policies == GetMap(svc, "policies")
        declared == Get(policies, "router", None)
        create_router_pol ==
            IF IsFalse(declared) THEN FALSE
            ELSE IF ~IsNone(declared) THEN TRUE
            ELSE default_create_router_policies
        router_pol_def == IF IsNone(declared) THEN EmptyMap ELSE declared
        er_roles ==
            IF GetList(router_pol_def, "roles") # <<>> THEN router_pol_def.roles
            ELSE default_router_roles
    IN  IF create_router_pol
        THEN <<[name |-> svc.name \o RouterSuffix,
                service_roles |-> <<HashPrefix(svc.name)>>,
                edge_router_roles |-> er_roles,
                semantic |-> Get(router_pol_def, "semantic", "AnyOf"),
                state |-> Get(svc, "state", "present")]>>
        ELSE <<>>

\* the loop of lines 130-290; st.svcs is the model's services list as mutated so far
RECURSIVE ServicesLoop(_, _, _, _, _)
ServicesLoop(all_services, i, target_names, dflt, st) ==
    IF i > Len(all_services) THEN st
    ELSE LET svc == all_services[i] IN
         IF Falsy(svc) THEN ServicesLoop(all_services, i + 1, target_names, dflt, st)
         ELSE IF ~Has(svc, "name") THEN [st EXCEPT !.failed = TRUE]
         ELSE IF ~should_process(svc.name, target_names)
              THEN ServicesLoop(all_services, i + 1, target_names, dflt, st)
         ELSE ServicesLoop(all_services, i + 1, target_names, dflt,
                  [st EXCEPT
                     !.configs = @ \o ServiceConfigs(svc),
                     !.services = Append(@, ServiceRecord(svc, dflt.encryption)),
                     !.service_policies = @ \o ServicePolicies(svc),
                     !.service_router_policies =
                         @ \o ServiceRouterPolicies(svc, dflt.router_roles,
                                                    dflt.create_router_policies),
                     !.svcs[i] = MutatedService(svc)])

RouterPolicyRecord(rp) ==
    [name |-> rp.name,
     edge_router_roles |->
        IF GetList(rp, "edge_router_roles") # <<>> THEN rp.edge_router_roles
        ELSE <<HashAll>>,
     identity_roles |->
        IF GetList(rp, "identity_roles") # <<>> THEN rp.identity_roles
        ELSE <<HashAll>>,
     semantic |-> Get(rp, "semantic", "AnyOf"),
     state |-> Get(rp, "state", "present")]

RECURSIVE RouterPoliciesScoped(_, _, _, _)
RouterPoliciesScoped(all_policies, i, target_names, st) ==
    IF i > Len(all_policies) THEN st
    ELSE LET rp == all_policies[i] IN
         IF Falsy(rp) THEN RouterPoliciesScoped(all_policies, i + 1, target_names, st)
         ELSE IF ~Has(rp, "name") THEN [st EXCEPT !.failed = TRUE]
         ELSE IF ~should_process(rp.name, target_names)
              THEN RouterPoliciesScoped(all_policies, i + 1, target_names, st)
         ELSE RouterPoliciesScoped(all_policies, i + 1, target_names,
                  [st EXCEPT !.router_policies = Append(@, RouterPolicyRecord(rp))])

\* the loop of lines 293-301
RECURSIVE RouterPoliciesLoop(_, _, _, _)
RouterPoliciesLoop(all_policies, i, target_names, st) ==
    IF i > Len(all_policies) THEN st
    ELSE LET rp == all_policies[i] IN
         IF Falsy(rp) THEN RouterPoliciesLoop(all_policies, i + 1, target_names, st)
         ELSE IF ~Has(rp, "name") THEN [st EXCEPT !.failed = TRUE]
         ELSE RouterPoliciesLoop(all_policies, i + 1, target_names,
                  [st EXCEPT !.router_policies = Append(@, RouterPolicyRecord(rp))])

\* lines 92-95
ParseDefaults(deployment_data) ==
    LET defaults == GetMap(deployment_data, "defaults") IN
    [router_roles |->
        IF GetList(defaults, "router_roles") # <<>> THEN defaults.router_roles
        ELSE <<HashAll>>,
     encryption |-> Get(defaults, "encryption", TRUE),
     create_router_policies |-> Get(defaults, "create_router_policies", FALSE)]

\* lines 83-310: the call on a non-empty model
TransformBody(deployment_data, target_names) ==
    LET dflt == ParseDefaults(deployment_data)
        st0 == [failed |-> FALSE, identities |-> <<>>, configs |-> <<>>,
                services |-> <<>>, service_policies |-> <<>>,
                router_policies |-> <<>>, service_router_policies |-> <<>>,
                svcs |-> GetList(deployment_data, "services")]
        st1 == IdentitiesLoop(GetList(deployment_data, "identities"), 1, target_names, st0)
        st2 == IF st1.failed THEN st1
               ELSE ServicesLoop(GetList(deployment_data, "services"), 1,
                                 target_names, dflt, st1)
        st3 == IF st2.failed THEN st2
               ELSE RouterPoliciesLoop(GetList(deployment_data, "router_policies"), 1,
                                       target_names, st2)
    IN  [out |-> IF st3.failed THEN KeyError
                 ELSE [openziti_identities |-> st3.identities,
                       openziti_configs |-> st3.configs,
                       openziti_services |-> st3.services,
                       openziti_service_policies |-> st3.service_policies,
                       openziti_router_policies |-> st3.router_policies,
                       openziti_service_router_policies |-> st3.service_router_policies],
         model |-> IF Has(deployment_data, "services")
                   THEN Set(deployment_data, "services", st3.svcs)
                   ELSE deployment_data,
         defaultsRead |-> TRUE]

\* a call that lacks the short-circuit of lines 73-81
TransformNoShortCircuit(deployment_data, target_names) ==
    IF IsNone(deployment_data)
    THEN [out |-> [error |-> "AttributeError"], model |-> deployment_data,
          defaultsRead |-> TRUE]
    ELSE TransformBody(deployment_data, target_names)

\* ziti_transform(deployment_data, target_names): what it returns, the model as it
\* leaves it, and whether it read the defaults
ziti_transform(deployment_data, target_names) ==
    IF Falsy(deployment_data)
    THEN [out |-> EmptyOutput, model |-> deployment_data, defaultsRead |-> FALSE]
    ELSE TransformBody(deployment_data, target_names)

---------------------------------------------------------------------------
(* openziti_loader: helpers *)

\* the content of a path in a tree: no file there, a file holding a YAML
\* document, a file of zero bytes, or a file whose text is not YAML
NoFile == [file |-> "missing"]
Yaml(doc) == [file |-> "yaml", doc |-> doc]
EmptyFile == [file |-> "empty"]
BadYaml == [file |-> "unparsable"]
\* the empty string that "\n".join([]) gives
NoContent == [file |-> "none"]

\* isinstance(v, dict) / isinstance(v, list) for the value at key k: every
\* fragment holds at a key a value of the kind the deployment model gives that key
MapKeys == {"defaults"}
ListKeys == {"services", "identities", "router_policies", "router_roles"}

\* a merge in which a fragment's value replaces the accumulator's
MergeReplacing(target, source) ==
    [k \in DOMAIN target \cup DOMAIN source |->
        IF k \in DOMAIN source THEN source[k] ELSE target[k]]

\* a merge in which the first fragment to give a scalar keeps it
MergeKeepingFirst(target, source) ==
    [k \in DOMAIN target \cup DOMAIN source |->
        IF k \notin DOMAIN source THEN target[k]
        ELSE IF k \in MapKeys
        THEN LET node == Get(target, k, EmptyMap) IN
             [j \in DOMAIN node \cup DOMAIN source[k] |->
                 IF j \in DOMAIN node THEN node[j] ELSE source[k][j]]
        ELSE IF k \in ListKeys THEN GetList(target, k) \o source[k]
        ELSE IF k \in DOMAIN target THEN target[k] ELSE source[k]]

RECURSIVE deep_merge(_, _)
deep_merge(target, source) ==
    [k \in DOMAIN target \cup DOMAIN source |->
        IF k \notin DOMAIN source THEN target[k]
        ELSE IF k \in MapKeys THEN deep_merge(Get(target, k, EmptyMap), source[k])
        ELSE IF k \in ListKeys THEN GetList(target, k) \o source[k]
        ELSE source[k]]

EntryNames(entries) ==
    {entries[i].name : i \in {j \in DOMAIN entries : Has(entries[j], "name")}}

\* an extraction that also collects the names of the host configs
ExtractWithConfigNames(data) ==
    IF Falsy(data) THEN {}
    ELSE LET root == Get(data, "ziti_deployment", data)
             svcs == GetList(root, "services")
         IN  (IF Has(root, "services") THEN EntryNames(root.services) ELSE {})
             \cup
             (IF Has(root, "identities") THEN EntryNames(root.identities) ELSE {})
             \cup
             {svcs[i].name \o HostSuffix :
                 i \in {j \in DOMAIN svcs : Has(svcs[j], "name") /\ Has(svcs[j], "host")}}

extract_names(data) ==
    IF Falsy(data) THEN {}
    ELSE LET root == Get(data, "ziti_deployment", data) IN
         (IF Has(root, "services") THEN EntryNames(root.services) ELSE {})
         \cup
         (IF Has(root, "identities") THEN EntryNames(root.identities) ELSE {})

\* yaml.safe_load raises yaml.YAMLError on text that is not YAML
YAMLError == [error |-> "YAMLError"]

\* yaml.safe_load(...) or {}
safe_load(content) ==
    IF content = BadYaml THEN YAMLError
    ELSE IF content = EmptyFile THEN EmptyMap
    ELSE IF Falsy(content.doc) THEN EmptyMap ELSE content.doc

\* a load without the `or {}` of line 100 and the `return {}` of line 103
LoadNoneWhenEmpty(tree, path) ==
    IF tree[path] \in {NoFile, EmptyFile} THEN None ELSE safe_load(tree[path])

load_yaml_file(tree, path) ==
    IF tree[path] = NoFile THEN EmptyMap ELSE safe_load(tree[path])

MarkAbsent(entries) == [i \in DOMAIN entries |-> Set(entries[i], "state", "absent")]

\* a recovery that leaves the states the fragment declared
KeepDeclaredState(file_data) == file_data

\* lines 231-237: state 'absent' is written into every service and identity
ForceAbsent(file_data) ==
    LET wrapped == Has(file_data, "ziti_deployment")
        root == Get(file_data, "ziti_deployment", file_data)
        r1 == IF Has(root, "services")
              THEN Set(root, "services", MarkAbsent(root.services)) ELSE root
        r2 == IF Has(r1, "identities")
              THEN Set(r1, "identities", MarkAbsent(r1.identities)) ELSE r1
    IN  IF wrapped THEN Set(file_data, "ziti_deployment", r2) ELSE r2

ParseWarning(token) == [warn |-> "Failed to parse deleted file content", path |-> token]

\* process_file(filepath, is_deleted, content); ld holds main's ziti_deployment and
\* target_names, the fragments merged and the warnings emitted so far, and whether
\* an exception has ended the run; token is the path as the caller has it
process_file(ld, tree, token, is_deleted, content, smart_mode, changed) ==
    LET recovering == is_deleted /\ content # NoContent
        parsed == IF recovering THEN safe_load(content)
                  ELSE load_yaml_file(tree, token[1])
        file_data == IF recovering THEN ForceAbsent(parsed) ELSE parsed
        data_to_merge == Get(file_data, "ziti_deployment", file_data)
    IN  IF Failed(parsed)
        THEN IF recovering
             THEN [ld EXCEPT !.warnings = Append(@, ParseWarning(token))]
             ELSE [ld EXCEPT !.crashed = TRUE]
        ELSE [ld EXCEPT
                !.ziti_deployment = deep_merge(@, data_to_merge),
                !.merged = Append(@, data_to_merge),
                !.target_names =
                    IF smart_mode /\ (is_deleted \/ token \in changed)
                    THEN @ \cup extract_names(file_data)
                    ELSE @]

\* the walk of lines 259-266 over the files found, in the order the walk finds them
RECURSIVE WalkLoop(_, _, _, _, _, _)
WalkLoop(ld, tree, order, i, smart_mode, changed) ==
    IF i > Len(order) \/ ld.crashed THEN ld
    ELSE WalkLoop(process_file(ld, tree, <<order[i]>>, FALSE, NoContent,
                               smart_mode, changed),
                  tree, order, i + 1, smart_mode, changed)

\* a run_git_cmd that reads stdout whatever the exit status
StdoutWhateverExit(proc) == proc.stdout

\* run_git_cmd: the lines of stdout, or no line when the command exits non-zero
run_git_cmd(proc) == IF proc.rc # 0 THEN {} ELSE proc.stdout

\* "\n".join(lines) for the output of git show
JoinLines(lines) == IF lines = {} THEN NoContent ELSE CHOOSE c \in lines : TRUE

\* the loop of lines 270-278 over deleted_files, in the order the set is iterated
RECURSIVE DeletedLoop(_, _, _, _, _, _)
DeletedLoop(ld, tree, order, i, shown, changed) ==
    IF i > Len(order) THEN ld
    ELSE LET content == JoinLines(run_git_cmd(shown[order[i]])) IN
         DeletedLoop(IF content # NoContent
                     THEN process_file(ld, tree, order[i], TRUE, content, TRUE, changed)
                     ELSE ld,
                     tree, order, i + 1, shown, changed)

\* `'D' in status`
HasD(status) == \E i \in DOMAIN status : status[i] = "D"

\* lines 190-198 and 205-216: the path is everything after the status
ParsedPath(line) == line.text

DeletedOf(lines) == {ParsedPath(l) : l \in {x \in lines : HasD(x.status)}}
ChangedOf(lines) == {ParsedPath(l) : l \in {x \in lines : ~HasD(x.status)}}

\* a loader that returns a list whatever smart_mode is
FinalTargetsAlwaysList(smart_mode, target_names) == [names |-> target_names]

\* line 281
FinalTargets(smart_mode, target_names) ==
    IF smart_mode THEN [names |-> target_names] ELSE None

Orders(S) ==
    {s \in [1..Cardinality(S) -> S] : \A i, j \in DOMAIN s : i # j => s[i] # s[j]}

---------------------------------------------------------------------------
(* git, as the loader queries it *)

Paths == {"deployments/services/a.yml", "deployments/services/b.yml"}

\* pairs (old, new) that git reports as a rename from tree t1 to tree t2: old is
\* gone, new is added with the content old had
RenamePairs(t1, t2) ==
    {pr \in Paths \X Paths :
        /\ pr[1] # pr[2]
        /\ t1[pr[1]] # NoFile /\ t2[pr[1]] = NoFile
        /\ t1[pr[2]] = NoFile /\ t2[pr[2]] = t1[pr[1]]}

Renamed(pairs) == {pr[1] : pr \in pairs} \cup {pr[2] : pr \in pairs}

\* git status --porcelain deployments/ : lines "XY PATH", a staged rename as
\* "R  ORIG -> PATH"; text is the line from its fourth character on
GitStatus ==
    LET pairs == IF staged THEN RenamePairs(head, work) ELSE {}
        code(p) ==
            IF work[p] = NoFile THEN (IF staged THEN <<"D", " ">> ELSE <<" ", "D">>)
            ELSE IF head[p] = NoFile THEN (IF staged THEN <<"A", " ">> ELSE <<"?", "?">>)
            ELSE (IF staged THEN <<"M", " ">> ELSE <<" ", "M">>)
    IN  [rc |-> 0,
         stdout |->
            {[status |-> <<"R", " ">>, text |-> <<pr[1], "->", pr[2]>>] : pr \in pairs}
            \cup
            {[status |-> code(p), text |-> <<p>>] :
                p \in {q \in Paths \ Renamed(pairs) : head[q] # work[q]}}]

\* git diff --name-status HEAD~1 HEAD deployments/ : lines "STATUS\tPATH", a rename
\* as "R100\tORIG\tPATH"; text is what follows the first run of whitespace
GitDiff ==
    LET pairs == RenamePairs(prev, head)
        code(p) ==
            IF head[p] = NoFile THEN <<"D">>
            ELSE IF prev[p] = NoFile THEN <<"A">>
            ELSE <<"M">>
    IN  [rc |-> 0,
         stdout |->
            {[status |-> <<"R", "1", "0", "0">>, text |-> <<pr[1], pr[2]>>] : pr \in pairs}
            \cup
            {[status |-> code(p), text |-> <<p>>] :
                p \in {q \in Paths \ Renamed(pairs) : prev[q] # head[q]}}]

\* git show HEAD:<del_path> : the file's content at HEAD (no line for a file of
\* zero bytes), or a failure when HEAD holds no such path
GitShow(del_path) ==
    IF Len(del_path) = 1 /\ head[del_path[1]] # NoFile
    THEN [rc |-> 0,
          stdout |-> IF head[del_path[1]] = EmptyFile THEN {} ELSE {head[del_path[1]]}]
    ELSE [rc |-> 128, stdout |-> {}]

\* what module.run_command gives for a git command: its result, or a non-zero
\* exit when git itself fails (a repository it refuses to read, a revision that
\* does not exist, a process that dies). What a failing command wrote to stdout
\* before it failed is anything up to all it had to write; it is taken to be all.
GitCommands == {"status", "diff", "show"}
Exit(proc, fails) == IF fails THEN [rc |-> 128, stdout |-> proc.stdout] ELSE proc

---------------------------------------------------------------------------
(* openziti_common.OpenZitiClient, as openziti_router_policy uses it, and the *)
(* controller's edge-router-policies endpoint that answers it                 *)

\* _get_entity_by_name: data[0] of the entities the name filter selects, or None
get_router_policy_by_name(name) ==
    LET data == {p \in edge_router_policies : p.name = name} IN
    IF data = {} THEN None ELSE CHOOSE p \in data : TRUE

\* OpenZitiRouterPolicyCreate(...).dict(exclude_none=True)
OpenZitiRouterPolicyCreate(name, edgeRouterRoles, identityRoles, semantic) ==
    [name |-> name, edgeRouterRoles |-> edgeRouterRoles,
     identityRoles |-> identityRoles, semantic |-> semantic]

\* the entity the controller stores for a POST, which _get_entity_by_id then reads
Created(policy_data) ==
    [id |-> nextId, name |-> policy_data.name,
     edgeRouterRoles |-> policy_data.edgeRouterRoles,
     identityRoles |-> policy_data.identityRoles,
     semantic |-> policy_data.semantic]

NoRun == [error |-> "not run"]
NoParams == [py |-> "None"]

\* a controller that holds no policy and has been sent nothing
ControllerIdle ==
    /\ edge_router_policies = {}
    /\ nextId = 1
    /\ params = NoParams
    /\ result = NoRun
    /\ requests = <<>>
    /\ runs = 0

---------------------------------------------------------------------------
(* openziti_common.OpenZitiClient, as the identity, config, service, service  *)
(* policy and service edge router policy modules use it, and a controller     *)
(* that stores what it is sent                                                *)

Endpoints ==
    {"identities", "configs", "services", "service-policies",
     "service-edge-router-policies"}

\* the config types the controller knows, with their ids
ConfigTypes == [x \in {"host.v1", "intercept.v1"} |-> [typeId |-> x]]

\* a str value, told apart from a structured one
Str(s) == [str |-> s]

\* OpenZitiIdentity(**data): type is the string sent, or the {id, name} reference
\* a controller gives in its place; a field the data lacks is None and is left out
OpenZitiIdentity(data) ==
    [data EXCEPT !.type = IF typeAsReference
                          THEN [id |-> <<"t", data.type>>, name |-> data.type]
                          ELSE Str(data.type)]

\* _get_entity_by_name: data[0] of the entities the name filter selects, or None
get_entity_by_name(endpoint, name) ==
    LET data == {e \in store[endpoint] : e.name = name} IN
    IF data = {} THEN None ELSE CHOOSE e \in data : TRUE

get_identity_by_name(name) ==
    LET e == get_entity_by_name("identities", name) IN
    IF IsNone(e) THEN None ELSE OpenZitiIdentity(e)

\* get_config_type_by_name: the id of the type, or None
get_config_type_by_name(name) ==
    IF name \in DOMAIN ConfigTypes THEN ConfigTypes[name] ELSE None

\* the store after the POST of _create_entity: the controller keeps the JSON it
\* was sent under a new id
Posted(endpoint, json) ==
    [store EXCEPT ![endpoint] = @ \cup {Set(json, "id", nextId)}]

\* the store after the PUT of _update_entity: the JSON sent replaces the entity
Put(endpoint, existing, json) ==
    [store EXCEPT ![endpoint] =
        {e \in @ : e.id # existing.id} \cup {Set(json, "id", existing.id)}]

\* the store after the DELETE of _delete_entity
Deleted(endpoint, existing) ==
    [store EXCEPT ![endpoint] = {e \in @ : e.id # existing.id}]

\* set(x or []) for an optional list, None being a key the record lacks
RoleSet(d, k) == IF Has(d, k) THEN Range(d[k]) ELSE {}

\* .dict(exclude_none=True) of the *Create models
OpenZitiIdentityCreate(mp) ==
    LET json == [name |-> mp.identity_name, type |-> mp.identity_type,
                 enrollment |-> [ott |-> TRUE], isAdmin |-> FALSE]
    IN  IF Has(mp, "role_attributes")
        THEN Set(json, "roleAttributes", mp.role_attributes) ELSE json

OpenZitiConfigCreate(mp, config_type_id) ==
    [name |-> mp.config_name, configTypeId |-> config_type_id, data |-> mp.data]

OpenZitiServiceCreate(mp, config_ids) ==
    LET json == [name |-> mp.service_name, configs |-> config_ids,
                 encryptionRequired |-> mp.encryption_required]
    IN  IF Has(mp, "role_attributes")
        THEN Set(json, "roleAttributes", mp.role_attributes) ELSE json

OpenZitiServicePolicyCreate(mp) ==
    [name |-> mp.policy_name, type |-> mp.policy_type,
     serviceRoles |-> mp.service_roles, identityRoles |-> mp.identity_roles,
     semantic |-> mp.semantic]

OpenZitiServiceRouterPolicyCreate(mp) ==
    [name |-> mp.policy_name, serviceRoles |-> mp.service_roles,
     edgeRouterRoles |-> mp.edge_router_roles, semantic |-> mp.semantic]

\* the HTTP requests of the client
Login == [method |-> "POST", path |-> "authenticate"]
GetNamed(endpoint, name) == [method |-> "GET", path |-> endpoint, name |-> name]
GetOne(endpoint, id) == [method |-> "GET", path |-> endpoint, id |-> id]
PostTo(endpoint, json) == [method |-> "POST", path |-> endpoint, json |-> json]
PutTo(endpoint, id, json) ==
    [method |-> "PUT", path |-> endpoint, id |-> id, json |-> json]
DeleteFrom(endpoint, id) == [method |-> "DELETE", path |-> endpoint, id |-> id]

\* a controller that holds nothing
StoreIdle ==
    /\ store = [x \in Endpoints |-> {}]
    /\ typeAsReference = FALSE

---------------------------------------------------------------------------
(* deep_merge called on documents whose values are of any kind *)

\* a YAML value together with its Python type: a dict of keyed values, a list of
\* items, or a scalar
Dict(items) == [kind |-> "dict", val |-> items]
List(items) == [kind |-> "list", val |-> items]
Scalar(v) == [kind |-> "scalar", val |-> v]

TypeError == [error |-> "TypeError"]
AttributeError == [error |-> "AttributeError"]

\* the keys of the documents, in the order in which source.val() yields them
Keys == <<"k", "j">>

ItemsOf(d) ==
    LET InDict(k) == k \in DOMAIN d.val IN SelectSeq(Keys, InDict)

\* deep_merge (lines 134-153) with isinstance deciding on the value itself; the
\* result is the accumulator, or the exception that a method the accumulator's
\* value does not have raises. deep_merge above is this function on documents
\* that hold at every key a value of the kind the deployment model gives the key.
RECURSIVE deep_merge_kinds(_, _), MergeItems(_, _, _, _)
MergeItems(target, source, order, i) ==
    IF Failed(target) \/ i > Len(order) THEN target
    ELSE LET k == order[i]
             v == source.val[k]
             step ==
                 IF target.kind # "dict"
                 THEN \* setdefault on, or item assignment to, a list or a scalar
                      IF v.kind = "scalar" THEN TypeError ELSE AttributeError
                 ELSE IF v.kind = "dict"
                 THEN LET node == IF k \in DOMAIN target.val
                                  THEN target.val[k] ELSE Dict(<<>>)
                          sub == deep_merge_kinds(node, v)
                      IN  IF Failed(sub) THEN sub
                          ELSE Dict(Set(target.val, k, sub))
                 ELSE IF v.kind = "list"
                 THEN LET node == IF k \in DOMAIN target.val
                                  THEN target.val[k] ELSE List(<<>>)
                      IN  IF node.kind # "list" THEN AttributeError
                          ELSE Dict(Set(target.val, k, List(node.val \o v.val)))
                 ELSE Dict(Set(target.val, k, v))
         IN  MergeItems(step, source, order, i + 1)

deep_merge_kinds(target, source) == MergeItems(target, source, ItemsOf(source), 1)

NoMerge == [error |-> "not merged"]

MergeIdle ==
    /\ accumulator = Dict(<<>>)
    /\ document = Dict(<<>>)
    /\ ret = NoMerge

---------------------------------------------------------------------------
(* Inputs of the Compiler *)

\* the longest the three entry lists of an enumerated model are, taken together
MaxEntries == 2
\* the number of ziti_transform calls made on one model
MaxCalls == 2

NameA == <<"a">>
NameB == <<"b">>
NameC == <<"c">>
NameD == <<"d">>
NameG == <<"g">>

SvcPlain == [name |-> NameA]
SvcFull ==
    [name |-> NameB,
     role_attributes |-> <<<<"#", "#", "v">>, <<"k">>>>, roles |-> <<<<"z">>>>,
     encryption |-> FALSE,
     host |-> [address |-> "10.0.0.1", port |-> 80],
     intercept |-> [port |-> 443, port_ranges |-> <<[low |-> 1, high |-> 9]>>,
                    address |-> "b.ziti"],
     policies |-> [bind |-> [roles |-> <<<<"r">>, <<"@", "e">>>>, identity |-> <<"i">>],
                   router |-> [roles |-> <<<<"p">>>>]]]
SvcAbsent ==
    [name |-> NameA, state |-> "absent",
     roles |-> <<<<"#", "w">>>>, encryption |-> TRUE,
     intercept |-> [port |-> 22, protocol |-> "udp"],
     policies |-> [dial |-> [roles |-> <<<<"#", "u">>>>, service_roles |-> <<<<"x">>>>,
                             semantic |-> "AllOf"],
                   router |-> PyFalse]]
SvcNameless == [host |-> [address |-> "10.0.0.2", port |-> 81]]
\* `role_attributes: []`, `host: {}`, `intercept:` and `bind: {}`, written with
\* nothing under them
SvcHollow ==
    [name |-> NameC, role_attributes |-> <<>>, host |-> EmptyMap, intercept |-> None,
     policies |-> [bind |-> EmptyMap, dial |-> [identity |-> <<"b", "o", "b">>]]]
SvcRanges ==
    [name |-> NameD,
     intercept |-> [port_ranges |-> <<[low |-> 1, high |-> 9], [low |-> 20, high |-> 29]>>,
                    protocols |-> <<"tcp", "udp">>],
     policies |-> [router |-> EmptyMap]]
ServiceDecls ==
    {SvcPlain, SvcFull, SvcAbsent, SvcNameless, SvcHollow, SvcRanges, EmptyMap, None}

IdentPlain == [name |-> NameC]
IdentFull ==
    [name |-> NameD, type |-> "User", role_attributes |-> <<<<"#", "x">>>>,
     tags |-> <<<<"#", "t">>>>, enrollment_method |-> "ca", state |-> "absent"]
IdentNameless == [type |-> "Router"]
IdentityDecls == {IdentPlain, IdentFull, IdentNameless, EmptyMap, None}

RouterPolicyPlain == [name |-> NameG]
RouterPolicyFull ==
    [name |-> NameA, edge_router_roles |-> <<<<"p">>>>,
     identity_roles |-> <<<<"#", "x">>>>, semantic |-> "AllOf", state |-> "absent"]
RouterPolicyNameless == [semantic |-> "AllOf"]
RouterPolicyDecls == {RouterPolicyPlain, RouterPolicyFull, RouterPolicyNameless, EmptyMap, None}

\* the model's 'defaults' key: not there, or one of two maps
DefaultsChoices ==
    {EmptyMap,
     [defaults |-> [create_router_policies |-> TRUE, router_roles |-> <<<<"e">>>>]],
     [defaults |-> [encryption |-> FALSE]]}

Lists(S, n) == UNION {[1..k -> S] : k \in 0..n}

Models ==
    {None, EmptyMap} \cup
    {[services |-> s, identities |-> i, router_policies |-> r] @@ d :
        <<s, i, r>> \in {t \in Lists(ServiceDecls, MaxEntries)
                                \X Lists(IdentityDecls, MaxEntries)
                                \X Lists(RouterPolicyDecls, MaxEntries) :
                            Len(t[1]) + Len(t[2]) + Len(t[3]) <= MaxEntries},
        d \in DefaultsChoices}

TargetChoices ==
    {None, [names |-> {}], [names |-> {NameA}], [names |-> {NameB, NameC}]}

EmptyTree == [p \in {} |-> None]

---------------------------------------------------------------------------
(* The Compiler called on a model that some caller holds *)

Compile ==
    /\ pc = "loaded"
    /\ calls < MaxCalls
    /\ LET r == ziti_transform(model, targets) IN
        /\ out' = r.out
        /\ model' = r.model
        /\ defaultsRead' = r.defaultsRead
    /\ prevOut' = out
    /\ calls' = calls + 1
    /\ UNCHANGED <<targets, repoVars, loaderVars, controllerVars, mergeVars, storeVars>>

Init ==
    /\ model \in Models
    /\ targets \in TargetChoices
    /\ out = NoCall
    /\ prevOut = NoCall
    /\ calls = 0
    /\ defaultsRead = FALSE
    /\ hasGit = FALSE
    /\ prev = EmptyTree
    /\ head = EmptyTree
    /\ work = EmptyTree
    /\ staged = FALSE
    /\ ops = 0
    /\ pc = "loaded"
    /\ smart = FALSE
    /\ queries = <<>>
    /\ warnings = <<>>
    /\ changed_files = {}
    /\ deleted_files = {}
    /\ recovered = EmptyTree
    /\ merged = <<>>
    /\ gitFails = {}
    /\ ControllerIdle
    /\ MergeIdle
    /\ StoreIdle

Next == Compile

Spec == Init /\ [][Next]_vars

---------------------------------------------------------------------------
(* The Loader run on a repository, followed by the Compiler *)

\* the number of edits and commits made before the loader runs
MaxOps == 2

DocA ==
    [ziti_deployment |->
        [defaults |-> [encryption |-> TRUE, create_router_policies |-> TRUE],
         services |-> <<[name |-> NameA, state |-> "present",
                         host |-> [address |-> "10.0.0.1", port |-> 80],
                         policies |-> [bind |-> [identity |-> <<"i">>],
                                       router |-> [roles |-> <<<<"#", "p">>>>]]]>>,
         identities |-> <<[name |-> NameC, state |-> "present"]>>]]
DocA2 ==
    [ziti_deployment |->
        [services |-> <<[name |-> NameA, intercept |-> [port |-> 443]]>>]]
DocB ==
    [defaults |-> [encryption |-> FALSE],
     services |-> <<[name |-> NameB, policies |-> [dial |-> [roles |-> <<<<"u">>>>]]]>>,
     identities |-> <<[name |-> NameD]>>]

Contents == {NoFile, Yaml(DocA), Yaml(DocA2), Yaml(DocB), EmptyFile, BadYaml}
Trees == [Paths -> Contents]
NoTree == [p \in Paths |-> NoFile]

PresentPaths == {p \in Paths : work[p] # NoFile}

NoGitWarning ==
    [warn |-> "Smart Mode enabled but .git directory not found. Processing ALL files."]

\* an editor writes a fragment file
WriteFile ==
    /\ pc = "idle" /\ ops < MaxOps /\ ~staged
    /\ \E p \in Paths, c \in Contents \ {NoFile} :
        /\ work[p] # c
        /\ work' = [work EXCEPT ![p] = c]
    /\ ops' = ops + 1
    /\ UNCHANGED <<compileVars, loaderVars, controllerVars, hasGit, prev, head, staged, mergeVars, storeVars>>

\* rm of a fragment file
DeleteFile ==
    /\ pc = "idle" /\ ops < MaxOps /\ ~staged
    /\ \E p \in Paths :
        /\ work[p] # NoFile
        /\ work' = [work EXCEPT ![p] = NoFile]
    /\ ops' = ops + 1
    /\ UNCHANGED <<compileVars, loaderVars, controllerVars, hasGit, prev, head, staged, mergeVars, storeVars>>

\* git mv of a fragment file: the rename is in the index at once
MoveFile ==
    /\ pc = "idle" /\ ops < MaxOps /\ hasGit
    /\ staged \/ work = head
    /\ \E o \in Paths, n \in Paths :
        /\ work[o] # NoFile /\ work[n] = NoFile
        /\ work' = [work EXCEPT ![o] = NoFile, ![n] = work[o]]
    /\ staged' = (work' # head)
    /\ ops' = ops + 1
    /\ UNCHANGED <<compileVars, loaderVars, controllerVars, hasGit, prev, head, mergeVars, storeVars>>

\* git add -A
StageAll ==
    /\ pc = "idle" /\ ops < MaxOps /\ hasGit
    /\ ~staged /\ work # head
    /\ staged' = TRUE
    /\ ops' = ops + 1
    /\ UNCHANGED <<compileVars, loaderVars, controllerVars, hasGit, prev, head, work, mergeVars, storeVars>>

\* git add -A and git commit
Commit ==
    /\ pc = "idle" /\ ops < MaxOps /\ hasGit
    /\ work # head
    /\ prev' = head
    /\ head' = work
    /\ staged' = FALSE
    /\ ops' = ops + 1
    /\ UNCHANGED <<compileVars, loaderVars, controllerVars, hasGit, work, mergeVars, storeVars>>

\* a loader that consults the revisions' comparison whatever git status returned
AlwaysDiff(smart_mode, statusLines) == smart_mode

\* `if lines: ... else:` of lines 188-203
UseDiff(smart_mode, statusLines) == smart_mode /\ statusLines = {}

\* openziti_loader main(), one run
main ==
    /\ pc = "idle"
    /\ \E sm \in BOOLEAN, order \in Orders(PresentPaths), fails \in SUBSET GitCommands :
        LET smart_mode == sm /\ hasGit
            status == Exit(GitStatus, "status" \in fails)
            statusLines == IF smart_mode THEN run_git_cmd(status) ELSE {}
            useDiff == UseDiff(smart_mode, statusLines)
            diff == Exit(GitDiff, "diff" \in fails)
            lines == IF useDiff THEN run_git_cmd(diff) ELSE statusLines
            changed == ChangedOf(lines)
            deleted == DeletedOf(lines)
            ld0 == [ziti_deployment |-> EmptyMap, target_names |-> {},
                    merged |-> <<>>,
                    warnings |-> IF sm /\ ~hasGit THEN <<NoGitWarning>> ELSE <<>>,
                    crashed |-> FALSE]
            ld1 == WalkLoop(ld0, work, order, 1, smart_mode, changed)
            shown == [t \in deleted |-> Exit(GitShow(t), "show" \in fails)]
        IN  \E delOrder \in Orders(IF smart_mode /\ ~ld1.crashed THEN deleted ELSE {}) :
              LET ld2 == DeletedLoop(ld1, work, delOrder, 1, shown, changed) IN
              /\ pc' = IF ld2.crashed THEN "crashed" ELSE "loaded"
              /\ model' = IF ld2.crashed THEN model ELSE ld2.ziti_deployment
              /\ targets' = IF ld2.crashed THEN targets
                            ELSE FinalTargets(smart_mode, ld2.target_names)
              /\ smart' = sm
              /\ queries' =
                    (IF smart_mode THEN <<[cmd |-> "status", rc |-> status.rc]>> ELSE <<>>)
                    \o (IF useDiff THEN <<[cmd |-> "diff", rc |-> diff.rc]>> ELSE <<>>)
                    \o [i \in DOMAIN delOrder |->
                           [cmd |-> "show", path |-> delOrder[i],
                            rc |-> shown[delOrder[i]].rc]]
              /\ warnings' = ld2.warnings
              /\ changed_files' = changed
              /\ deleted_files' = deleted
              /\ recovered' =
                    [t \in Range(delOrder) |-> JoinLines(run_git_cmd(shown[t]))]
              /\ merged' = ld2.merged
              /\ gitFails' =
                    {q \in fails :
                        \/ q = "status" /\ smart_mode
                        \/ q = "diff" /\ useDiff
                        \/ q = "show" /\ delOrder # <<>>}
    /\ UNCHANGED <<out, prevOut, calls, defaultsRead, repoVars, controllerVars, mergeVars, storeVars>>

InitLoader ==
    /\ model = EmptyMap
    /\ targets = None
    /\ out = NoCall
    /\ prevOut = NoCall
    /\ calls = 0
    /\ defaultsRead = FALSE
    /\ hasGit \in BOOLEAN
    /\ work \in Trees
    /\ head = IF hasGit THEN work ELSE NoTree
    /\ prev \in {head, NoTree}
    /\ staged = FALSE
    /\ ops = 0
    /\ pc = "idle"
    /\ smart = FALSE
    /\ queries = <<>>
    /\ warnings = <<>>
    /\ changed_files = {}
    /\ deleted_files = {}
    /\ recovered = EmptyTree
    /\ merged = <<>>
    /\ gitFails = {}
    /\ ControllerIdle
    /\ MergeIdle
    /\ StoreIdle

NextLoader ==
    \/ WriteFile
    \/ DeleteFile
    \/ MoveFile
    \/ StageAll
    \/ Commit
    \/ main
    \/ Compile

SpecLoader == InitLoader /\ [][NextLoader]_vars

---------------------------------------------------------------------------
(* openziti_router_policy run against a controller *)

\* the number of openziti_router_policy runs
MaxRuns == 2

PolicyNames == {NameA, NameG}
RoleLists == {<<HashAll>>, <<<<"#", "x">>>>}
Semantics == {"AnyOf", "AllOf"}

ModuleParams ==
    [policy_name : PolicyNames, edge_router_roles : RoleLists,
     identity_roles : RoleLists, semantic : Semantics,
     state : {"present", "absent"}, check_mode : BOOLEAN]

Authenticate == [method |-> "POST", path |-> "authenticate"]
GetByName(name) == [method |-> "GET", path |-> "edge-router-policies", name |-> name]
GetById(id) == [method |-> "GET", path |-> "edge-router-policies", id |-> id]
Post(data) == [method |-> "POST", path |-> "edge-router-policies", json |-> data]
Delete(id) == [method |-> "DELETE", path |-> "edge-router-policies", id |-> id]

\* openziti_router_policy main(), one run; up tells whether the controller answers
router_policy_main ==
    /\ runs < MaxRuns
    /\ \E mp \in ModuleParams, up \in BOOLEAN :
        LET existing_policy == get_router_policy_by_name(mp.policy_name)
            new_policy == OpenZitiRouterPolicyCreate(mp.policy_name, mp.edge_router_roles,
                                                     mp.identity_roles, mp.semantic)
            lookup == <<Authenticate, GetByName(mp.policy_name)>>
            unchanged == /\ edge_router_policies' = edge_router_policies
                         /\ nextId' = nextId
        IN  /\ params' = mp
            /\ IF ~up
               THEN /\ result' = [failed |-> TRUE, changed |-> FALSE, policy |-> EmptyMap]
                    /\ requests' = <<Authenticate>>
                    /\ unchanged
               ELSE IF mp.state = "present" /\ ~IsNone(existing_policy)
               THEN /\ result' = [failed |-> FALSE, changed |-> FALSE,
                                  policy |-> existing_policy]
                    /\ requests' = lookup
                    /\ unchanged
               ELSE IF mp.state = "absent" /\ IsNone(existing_policy)
               THEN /\ result' = [failed |-> FALSE, changed |-> FALSE, policy |-> EmptyMap]
                    /\ requests' = lookup
                    /\ unchanged
               ELSE IF mp.check_mode
               THEN /\ result' = [failed |-> FALSE, changed |-> TRUE, policy |-> EmptyMap]
                    /\ requests' = lookup
                    /\ unchanged
               ELSE IF mp.state = "present"
               THEN /\ edge_router_policies' =
                          edge_router_policies \cup {Created(new_policy)}
                    /\ nextId' = nextId + 1
                    /\ result' = [failed |-> FALSE, changed |-> TRUE,
                                  policy |-> Created(new_policy)]
                    /\ requests' = lookup \o <<Post(new_policy), GetById(nextId)>>
               ELSE /\ edge_router_policies' = edge_router_policies \ {existing_policy}
                    /\ nextId' = nextId
                    /\ result' = [failed |-> FALSE, changed |-> TRUE, policy |-> EmptyMap]
                    /\ requests' = lookup \o <<Delete(existing_policy.id)>>
    /\ runs' = runs + 1
    /\ UNCHANGED <<compileVars, repoVars, loaderVars, mergeVars, storeVars>>

InitController ==
    /\ model = EmptyMap
    /\ targets = None
    /\ out = NoCall
    /\ prevOut = NoCall
    /\ calls = 0
    /\ defaultsRead = FALSE
    /\ hasGit = FALSE
    /\ prev = EmptyTree
    /\ head = EmptyTree
    /\ work = EmptyTree
    /\ staged = FALSE
    /\ ops = 0
    /\ pc = "loaded"
    /\ smart = FALSE
    /\ queries = <<>>
    /\ warnings = <<>>
    /\ changed_files = {}
    /\ deleted_files = {}
    /\ recovered = EmptyTree
    /\ merged = <<>>
    /\ gitFails = {}
    /\ ControllerIdle
    /\ MergeIdle
    /\ StoreIdle

NextController == router_policy_main

SpecController == InitController /\ [][NextController]_vars

---------------------------------------------------------------------------
(* The identity, config, service, service policy and service edge router      *)
(* policy modules run against a controller                                    *)

\* the number of module runs
MaxModuleRuns == 3

States == {"present", "absent"}

WithRoleAttributes(ps) == ps \cup {Set(mp, "role_attributes", <<"r">>) : mp \in ps}

\* module.params; a parameter that is not given (None) is a key the record lacks.
\* jwt_output_dir is never given.
IdentityParams ==
    WithRoleAttributes(
        [module : {"openziti_identity"}, identity_name : {NameA},
         identity_type : {"Device", "User"}, state : States, check_mode : BOOLEAN])

ConfigParams ==
    [module : {"openziti_config"}, config_name : {NameA},
     config_type_name : {"host.v1", "none.v1"},
     data : {[address |-> "10.0.0.1", port |-> 80], [address |-> "10.0.0.1", port |-> 443]},
     state : States, check_mode : BOOLEAN]

ServiceParams ==
    WithRoleAttributes(
        LET ps == [module : {"openziti_service"}, service_name : {NameB},
                   encryption_required : BOOLEAN, state : States, check_mode : BOOLEAN]
        IN  ps \cup {Set(mp, "configs", <<NameA>>) : mp \in ps})

ServicePolicyParams ==
    [module : {"openziti_service_policy"}, policy_name : {NameG},
     policy_type : {"Dial", "Bind"}, service_roles : {<<<<"#", "b">>>>},
     identity_roles : RoleLists, semantic : Semantics,
     state : States, check_mode : BOOLEAN]

ServiceRouterPolicyParams ==
    [module : {"openziti_service_router_policy"}, policy_name : {NameG},
     service_roles : {<<<<"#", "b">>>>}, edge_router_roles : RoleLists,
     semantic : Semantics, state : States, check_mode : BOOLEAN]

Exit_json(changed, key, entity) ==
    [failed |-> FALSE, changed |-> changed, entity |-> entity, key |-> key]

Fail_json(msg) == [failed |-> TRUE, changed |-> FALSE, msg |-> msg]

\* openziti_identity main(), one run
identity_main ==
    /\ runs < MaxModuleRuns
    /\ \E mp \in IdentityParams :
        LET existing_identity == get_identity_by_name(mp.identity_name)
            lookup == <<Login, GetNamed("identities", mp.identity_name)>>
            json == OpenZitiIdentityCreate(mp)
        IN  /\ params' = mp
            /\ IF mp.state = "present" /\ ~IsNone(existing_identity)
               THEN LET needs_update ==
                            \/ RoleSet(existing_identity, "roleAttributes")
                                   # RoleSet(mp, "role_attributes")
                            \/ existing_identity.type # Str(mp.identity_type)
                    IN  IF ~needs_update
                        THEN /\ result' = Exit_json(FALSE, "identity", existing_identity)
                             /\ requests' = lookup
                             /\ UNCHANGED <<store, nextId>>
                        ELSE IF mp.check_mode
                        THEN /\ result' = Exit_json(TRUE, "identity", existing_identity)
                             /\ requests' = lookup
                             /\ UNCHANGED <<store, nextId>>
                        ELSE /\ store' = Put("identities", existing_identity, json)
                             /\ nextId' = nextId
                             /\ result' =
                                   Exit_json(TRUE, "identity",
                                             OpenZitiIdentity(Set(json, "id",
                                                                  existing_identity.id)))
                             /\ requests' =
                                   lookup \o <<PutTo("identities", existing_identity.id, json),
                                               GetNamed("identities", mp.identity_name)>>
               ELSE IF mp.state = "present"
               THEN IF mp.check_mode
                    THEN /\ result' = Exit_json(TRUE, "identity", EmptyMap)
                         /\ requests' = lookup
                         /\ UNCHANGED <<store, nextId>>
                    ELSE \* the identity is created; get_enrollment_jwt then reads
                         \* enrollment['ott'].get('jwt') from the enrollment the
                         \* controller holds, {'ott': True} as it was sent, and a bool
                         \* has no get: the run ends with an AttributeError
                         /\ store' = Posted("identities", json)
                         /\ nextId' = nextId + 1
                         /\ result' = Fail_json("AttributeError")
                         /\ requests' =
                               lookup \o <<PostTo("identities", json),
                                           GetOne("identities", nextId),
                                           GetOne("identities", nextId)>>
               ELSE IF IsNone(existing_identity)
               THEN /\ result' = Exit_json(FALSE, "identity", EmptyMap)
                    /\ requests' = lookup
                    /\ UNCHANGED <<store, nextId>>
               ELSE IF mp.check_mode
               THEN /\ result' = Exit_json(TRUE, "identity", EmptyMap)
                    /\ requests' = lookup
                    /\ UNCHANGED <<store, nextId>>
               ELSE /\ store' = Deleted("identities", existing_identity)
                    /\ nextId' = nextId
                    /\ result' = Exit_json(TRUE, "identity", EmptyMap)
                    /\ requests' =
                          lookup \o <<DeleteFrom("identities", existing_identity.id)>>
    /\ runs' = runs + 1
    /\ UNCHANGED <<edge_router_policies, typeAsReference,
                   compileVars, repoVars, loaderVars, mergeVars>>

GetConfigType(name) == [method |-> "GET", path |-> "config-types", name |-> name]

\* openziti_config main(), one run
config_main ==
    /\ runs < MaxModuleRuns
    /\ \E mp \in ConfigParams :
        LET existing_config == get_entity_by_name("configs", mp.config_name)
            config_type_id == get_config_type_by_name(mp.config_type_name)
            lookup == <<Login, GetNamed("configs", mp.config_name)>>
            resolved == lookup \o <<GetConfigType(mp.config_type_name)>>
            new_config == OpenZitiConfigCreate(mp, config_type_id)
        IN  /\ params' = mp
            /\ IF mp.state = "present" /\ IsNone(config_type_id)
               THEN /\ result' = Fail_json("Config Type not found on the controller.")
                    /\ requests' = resolved
                    /\ UNCHANGED <<store, nextId>>
               ELSE IF mp.state = "present" /\ ~IsNone(existing_config)
               THEN IF existing_config.data = mp.data
                    THEN /\ result' = Exit_json(FALSE, "config", existing_config)
                         /\ requests' = resolved
                         /\ UNCHANGED <<store, nextId>>
                    ELSE IF mp.check_mode
                    THEN /\ result' = Exit_json(TRUE, "config", EmptyMap)
                         /\ requests' = resolved
                         /\ UNCHANGED <<store, nextId>>
                    ELSE /\ store' = Put("configs", existing_config, new_config)
                         /\ nextId' = nextId
                         /\ result' = Exit_json(TRUE, "config", new_config)
                         /\ requests' =
                               resolved \o <<PutTo("configs", existing_config.id, new_config)>>
               ELSE IF mp.state = "present"
               THEN IF mp.check_mode
                    THEN /\ result' = Exit_json(TRUE, "config", EmptyMap)
                         /\ requests' = resolved
                         /\ UNCHANGED <<store, nextId>>
                    ELSE /\ store' = Posted("configs", new_config)
                         /\ nextId' = nextId + 1
                         /\ result' = Exit_json(TRUE, "config", Set(new_config, "id", nextId))
                         /\ requests' =
                               resolved \o <<PostTo("configs", new_config),
                                             GetOne("configs", nextId)>>
               ELSE IF IsNone(existing_config)
               THEN /\ result' = Exit_json(FALSE, "config", EmptyMap)
                    /\ requests' = lookup
                    /\ UNCHANGED <<store, nextId>>
               ELSE IF mp.check_mode
               THEN /\ result' = Exit_json(TRUE, "config", EmptyMap)
                    /\ requests' = lookup
                    /\ UNCHANGED <<store, nextId>>
               ELSE /\ store' = Deleted("configs", existing_config)
                    /\ nextId' = nextId
                    /\ result' = Exit_json(TRUE, "config", EmptyMap)
                    /\ requests' = lookup \o <<DeleteFrom("configs", existing_config.id)>>
    /\ runs' = runs + 1
    /\ UNCHANGED <<edge_router_policies, typeAsReference,
                   compileVars, repoVars, loaderVars, mergeVars>>

\* openziti_service main(), one run
service_main ==
    /\ runs < MaxModuleRuns
    /\ \E mp \in ServiceParams :
        LET existing_service == get_entity_by_name("services", mp.service_name)
            config_names == GetList(mp, "configs")
            missing == {i \in DOMAIN config_names :
                           IsNone(get_entity_by_name("configs", config_names[i]))}
            \* the names looked up: all of them, or those up to the first not found
            asked == IF missing = {} THEN Len(config_names)
                     ELSE CHOOSE i \in missing : \A j \in missing : i <= j
            config_ids == [i \in DOMAIN config_names |->
                              get_entity_by_name("configs", config_names[i]).id]
            lookup == <<Login, GetNamed("services", mp.service_name)>>
            resolved == lookup \o [i \in 1..asked |-> GetNamed("configs", config_names[i])]
            json == OpenZitiServiceCreate(mp, config_ids)
        IN  /\ params' = mp
            /\ IF mp.state = "present" /\ missing # {}
               THEN /\ result' = Fail_json("Config not found.")
                    /\ requests' = resolved
                    /\ UNCHANGED <<store, nextId>>
               ELSE IF mp.state = "present" /\ ~IsNone(existing_service)
               THEN LET needs_update ==
                            \/ RoleSet(existing_service, "roleAttributes")
                                   # RoleSet(mp, "role_attributes")
                            \/ RoleSet(existing_service, "configs") # Range(config_ids)
                            \/ existing_service.encryptionRequired # mp.encryption_required
                    IN  IF ~needs_update
                        THEN /\ result' = Exit_json(FALSE, "service", existing_service)
                             /\ requests' = resolved
                             /\ UNCHANGED <<store, nextId>>
                        ELSE IF mp.check_mode
                        THEN /\ result' = Exit_json(TRUE, "service", existing_service)
                             /\ requests' = resolved
                             /\ UNCHANGED <<store, nextId>>
                        ELSE /\ store' = Put("services", existing_service, json)
                             /\ nextId' = nextId
                             /\ result' = Exit_json(TRUE, "service",
                                                    Set(json, "id", existing_service.id))
                             /\ requests' =
                                   resolved \o <<PutTo("services", existing_service.id, json),
                                                 GetNamed("services", mp.service_name)>>
               ELSE IF mp.state = "present"
               THEN IF mp.check_mode
                    THEN /\ result' = Exit_json(TRUE, "service", EmptyMap)
                         /\ requests' = resolved
                         /\ UNCHANGED <<store, nextId>>
                    ELSE /\ store' = Posted("services", json)
                         /\ nextId' = nextId + 1
                         /\ result' = Exit_json(TRUE, "service", Set(json, "id", nextId))
                         /\ requests' =
                               resolved \o <<PostTo("services", json),
                                             GetOne("services", nextId)>>
               ELSE IF IsNone(existing_service)
               THEN /\ result' = Exit_json(FALSE, "service", EmptyMap)
                    /\ requests' = lookup
                    /\ UNCHANGED <<store, nextId>>
               ELSE IF mp.check_mode
               THEN /\ result' = Exit_json(TRUE, "service", EmptyMap)
                    /\ requests' = lookup
                    /\ UNCHANGED <<store, nextId>>
               ELSE /\ store' = Deleted("services", existing_service)
                    /\ nextId' = nextId
                    /\ result' = Exit_json(TRUE, "service", EmptyMap)
                    /\ requests' = lookup \o <<DeleteFrom("services", existing_service.id)>>
    /\ runs' = runs + 1
    /\ UNCHANGED <<edge_router_policies, typeAsReference,
                   compileVars, repoVars, loaderVars, mergeVars>>

\* openziti_service_policy main(), one run
service_policy_main ==
    /\ runs < MaxModuleRuns
    /\ \E mp \in ServicePolicyParams :
        LET existing_policy == get_entity_by_name("service-policies", mp.policy_name)
            lookup == <<Login, GetNamed("service-policies", mp.policy_name)>>
            json == OpenZitiServicePolicyCreate(mp)
        IN  /\ params' = mp
            /\ IF mp.state = "present" /\ ~IsNone(existing_policy)
               THEN LET needs_update ==
                            \/ Range(existing_policy.serviceRoles) # Range(mp.service_roles)
                            \/ Range(existing_policy.identityRoles) # Range(mp.identity_roles)
                            \/ existing_policy.type # mp.policy_type
                            \/ existing_policy.semantic # mp.semantic
                    IN  IF ~needs_update
                        THEN /\ result' = Exit_json(FALSE, "policy", existing_policy)
                             /\ requests' = lookup
                             /\ UNCHANGED <<store, nextId>>
                        ELSE IF mp.check_mode
                        THEN /\ result' = Exit_json(TRUE, "policy", existing_policy)
                             /\ requests' = lookup
                             /\ UNCHANGED <<store, nextId>>
                        ELSE /\ store' = Put("service-policies", existing_policy, json)
                             /\ nextId' = nextId
                             /\ result' = Exit_json(TRUE, "policy",
                                                    Set(json, "id", existing_policy.id))
                             /\ requests' =
                                   lookup \o <<PutTo("service-policies",
                                                     existing_policy.id, json),
                                               GetNamed("service-policies", mp.policy_name)>>
               ELSE IF mp.state = "present"
               THEN IF mp.check_mode
                    THEN /\ result' = Exit_json(TRUE, "policy", EmptyMap)
                         /\ requests' = lookup
                         /\ UNCHANGED <<store, nextId>>
                    ELSE /\ store' = Posted("service-policies", json)
                         /\ nextId' = nextId + 1
                         /\ result' = Exit_json(TRUE, "policy", Set(json, "id", nextId))
                         /\ requests' =
                               lookup \o <<PostTo("service-policies", json),
                                           GetOne("service-policies", nextId)>>
               ELSE IF IsNone(existing_policy)
               THEN /\ result' = Exit_json(FALSE, "policy", EmptyMap)
                    /\ requests' = lookup
                    /\ UNCHANGED <<store, nextId>>
               ELSE IF mp.check_mode
               THEN /\ result' = Exit_json(TRUE, "policy", EmptyMap)
                    /\ requests' = lookup
                    /\ UNCHANGED <<store, nextId>>
               ELSE /\ store' = Deleted("service-policies", existing_policy)
                    /\ nextId' = nextId
                    /\ result' = Exit_json(TRUE, "policy", EmptyMap)
                    /\ requests' =
                          lookup \o <<DeleteFrom("service-policies", existing_policy.id)>>
    /\ runs' = runs + 1
    /\ UNCHANGED <<edge_router_policies, typeAsReference,
                   compileVars, repoVars, loaderVars, mergeVars>>

\* openziti_service_router_policy main(), one run
service_router_policy_main ==
    /\ runs < MaxModuleRuns
    /\ \E mp \in ServiceRouterPolicyParams :
        LET endpoint == "service-edge-router-policies"
            existing_policy == get_entity_by_name(endpoint, mp.policy_name)
            lookup == <<Login, GetNamed(endpoint, mp.policy_name)>>
            json == OpenZitiServiceRouterPolicyCreate(mp)
        IN  /\ params' = mp
            /\ IF mp.state = "present" /\ ~IsNone(existing_policy)
               THEN LET needs_update ==
                            \/ Range(existing_policy.serviceRoles) # Range(mp.service_roles)
                            \/ Range(existing_policy.edgeRouterRoles)
                                   # Range(mp.edge_router_roles)
                            \/ existing_policy.semantic # mp.semantic
                    IN  IF ~needs_update
                        THEN /\ result' = Exit_json(FALSE, "policy", existing_policy)
                             /\ requests' = lookup
                             /\ UNCHANGED <<store, nextId>>
                        ELSE IF mp.check_mode
                        THEN /\ result' = Exit_json(TRUE, "policy", existing_policy)
                             /\ requests' = lookup
                             /\ UNCHANGED <<store, nextId>>
                        ELSE /\ store' = Put(endpoint, existing_policy, json)
                             /\ nextId' = nextId
                             /\ result' = Exit_json(TRUE, "policy",
                                                    Set(json, "id", existing_policy.id))
                             /\ requests' =
                                   lookup \o <<PutTo(endpoint, existing_policy.id, json),
                                               GetNamed(endpoint, mp.policy_name)>>
               ELSE IF mp.state = "present"
               THEN IF mp.check_mode
                    THEN /\ result' = Exit_json(TRUE, "policy", EmptyMap)
                         /\ requests' = lookup
                         /\ UNCHANGED <<store, nextId>>
                    ELSE /\ store' = Posted(endpoint, json)
                         /\ nextId' = nextId + 1
                         /\ result' = Exit_json(TRUE, "policy", Set(json, "id", nextId))
                         /\ requests' =
                               lookup \o <<PostTo(endpoint, json), GetOne(endpoint, nextId)>>
               ELSE IF IsNone(existing_policy)
               THEN /\ result' = Exit_json(FALSE, "policy", EmptyMap)
                    /\ requests' = lookup
                    /\ UNCHANGED <<store, nextId>>
               ELSE IF mp.check_mode
               THEN /\ result' = Exit_json(TRUE, "policy", EmptyMap)
                    /\ requests' = lookup
                    /\ UNCHANGED <<store, nextId>>
               ELSE /\ store' = Deleted(endpoint, existing_policy)
                    /\ nextId' = nextId
                    /\ result' = Exit_json(TRUE, "policy", EmptyMap)
                    /\ requests' = lookup \o <<DeleteFrom(endpoint, existing_policy.id)>>
    /\ runs' = runs + 1
    /\ UNCHANGED <<edge_router_policies, typeAsReference,
                   compileVars, repoVars, loaderVars, mergeVars>>

InitModules ==
    /\ model = EmptyMap
    /\ targets = None
    /\ out = NoCall
    /\ prevOut = NoCall
    /\ calls = 0
    /\ defaultsRead = FALSE
    /\ hasGit = FALSE
    /\ prev = EmptyTree
    /\ head = EmptyTree
    /\ work = EmptyTree
    /\ staged = FALSE
    /\ ops = 0
    /\ pc = "loaded"
    /\ smart = FALSE
    /\ queries = <<>>
    /\ warnings = <<>>
    /\ changed_files = {}
    /\ deleted_files = {}
    /\ recovered = EmptyTree
    /\ merged = <<>>
    /\ gitFails = {}
    /\ ControllerIdle
    /\ MergeIdle
    /\ store = [x \in Endpoints |-> {}]
    /\ typeAsReference \in BOOLEAN

NextModules ==
    \/ identity_main
    \/ config_main
    \/ service_main
    \/ service_policy_main
    \/ service_router_policy_main

SpecModules == InitModules /\ [][NextModules]_vars

---------------------------------------------------------------------------
(* deep_merge run on a pair of documents *)

\* the values a fragment can hold at a key: a scalar, a list, a dict, and a dict
\* of those
Leaves == {Scalar("s"), List(<<>>), List(<<"x">>), Dict(<<>>)}
Values == Leaves \cup {Dict([k \in {"k"} |-> v]) : v \in Leaves}
Documents == {Dict(f) : f \in UNION {[S -> Values] : S \in SUBSET Range(Keys)}}

\* deep_merge(accumulator, document): the accumulator is updated in place and
\* returned; an exception ends the run
Merge ==
    /\ ret = NoMerge
    /\ ret' = deep_merge_kinds(accumulator, document)
    /\ accumulator' = IF Failed(ret') THEN accumulator ELSE ret'
    /\ UNCHANGED <<document, compileVars, repoVars, loaderVars, controllerVars, storeVars>>

InitMerge ==
    /\ model = EmptyMap
    /\ targets = None
    /\ out = NoCall
    /\ prevOut = NoCall
    /\ calls = 0
    /\ defaultsRead = FALSE
    /\ hasGit = FALSE
    /\ prev = EmptyTree
    /\ head = EmptyTree
    /\ work = EmptyTree
    /\ staged = FALSE
    /\ ops = 0
    /\ pc = "loaded"
    /\ smart = FALSE
    /\ queries = <<>>
    /\ warnings = <<>>
    /\ changed_files = {}
    /\ deleted_files = {}
    /\ recovered = EmptyTree
    /\ merged = <<>>
    /\ gitFails = {}
    /\ ControllerIdle
    /\ accumulator \in Documents
    /\ document \in Documents
    /\ ret = NoMerge
    /\ StoreIdle

NextMerge == Merge

SpecMerge == InitMerge /\ [][NextMerge]_vars

---------------------------------------------------------------------------
(* Claims about the Compiler, checked under Spec *)

Returned == calls > 0 /\ ~Failed(out)

DerivedFrom(name, names, suffixes) ==
    \E n \in names : \E x \in suffixes : name = n \o x

\* C1: with a bounded target set, the empty set included, an identity record, a
\* service record, and a service's derived configs and policies are emitted only
\* for names that are members of the target set.
C1_OnlyTargetNames ==
    (Returned /\ ~IsNone(targets)) =>
        /\ \A x \in Range(out.openziti_identities) : x.name \in targets.names
        /\ \A x \in Range(out.openziti_services) : x.name \in targets.names
        /\ \A x \in Range(out.openziti_configs) :
               DerivedFrom(x.name, targets.names, {HostSuffix, InterceptSuffix})
        /\ \A x \in Range(out.openziti_service_policies) :
               DerivedFrom(x.name, targets.names, {BindSuffix, DialSuffix})
        /\ \A x \in Range(out.openziti_service_router_policies) :
               DerivedFrom(x.name, targets.names, {RouterSuffix})

\* C2: the second of two successive calls on the same model returns the same six
\* lists as the first returned.
C2_RecompileIdentical ==
    calls = 2 => out = prevOut

Prefixed(tokens) ==
    \A i \in DOMAIN tokens : startswith(tokens[i], "#") \/ startswith(tokens[i], "@")

\* C3: every role reference in the returned policy lists is prefixed with '#' or '@'.
C3_RolesPrefixed ==
    Returned =>
        /\ \A x \in Range(out.openziti_service_policies) :
               Prefixed(x.service_roles) /\ Prefixed(x.identity_roles)
        /\ \A x \in Range(out.openziti_service_router_policies) :
               Prefixed(x.service_roles) /\ Prefixed(x.edge_router_roles)
        /\ \A x \in Range(out.openziti_router_policies) :
               Prefixed(x.edge_router_roles) /\ Prefixed(x.identity_roles)

NonNullNameless(entries) ==
    \E i \in DOMAIN entries : ~IsNone(entries[i]) /\ ~Has(entries[i], "name")

\* C8: the call fails, returning no list, whenever a non-null entry of services,
\* identities or router_policies has no name, an empty map included.
C8_NamelessFails ==
    (calls > 0 /\ ~Falsy(model)
       /\ (\/ NonNullNameless(model.services)
           \/ NonNullNameless(model.identities)
           \/ NonNullNameless(model.router_policies)))
    => Failed(out)

\* C9: an absent or empty model compiles to six empty lists, whatever the target
\* set, and its defaults are not read.
C9_EmptyModel ==
    (calls > 0 /\ (IsNone(model) \/ model = EmptyMap)) =>
        (out = EmptyOutput /\ ~defaultsRead)

C9_Witness ==
    calls > 0 /\ IsNone(model) /\ ~IsNone(targets) /\ targets.names # {}

Named(entries) == SelectSeq(entries, LAMBDA e : ~IsNone(e) /\ Has(e, "name"))

Processed ==
    SelectSeq(GetList(model, "services"),
              LAMBDA e : ~Falsy(e) /\ Has(e, "name") /\ should_process(e.name, targets))

RECURSIVE Flatten(_)
Flatten(seqs) == IF seqs = <<>> THEN <<>> ELSE Head(seqs) \o Flatten(Tail(seqs))

\* the service declares the key, with whatever under it
Present(svc, key) == Has(svc, key)
\* the service declares the key with a non-empty map under it
NonEmpty(svc, key) == Has(svc, key) /\ ~Falsy(svc[key])

\* a call that returns: each service it processes has one service record whose
\* configs list is <svc>-host-v1 when Declares(svc, "host"), then
\* <svc>-intercept-v1 when Declares(svc, "intercept"); the emitted configs are
\* exactly the configs so listed, service by service, each of the type its name
\* tells. The model is the one the call is given, the output the one it returns.
ConfigsFollow(Declares(_, _)) ==
    (~Failed(out') /\ ~Falsy(model)) =>
        LET svcs == Processed
            recs == out'.openziti_services
            cfgs == out'.openziti_configs
        IN  /\ Len(recs) = Len(svcs)
            /\ \A i \in DOMAIN svcs :
                 /\ recs[i].name = svcs[i].name
                 /\ recs[i].configs =
                      (IF Declares(svcs[i], "host")
                       THEN <<svcs[i].name \o HostSuffix>> ELSE <<>>)
                      \o (IF Declares(svcs[i], "intercept")
                          THEN <<svcs[i].name \o InterceptSuffix>> ELSE <<>>)
                 /\ (Declares(svcs[i], "host") /\ Declares(svcs[i], "intercept"))
                       => Len(recs[i].configs) = 2
            /\ [j \in DOMAIN cfgs |-> cfgs[j].name]
                 = Flatten([i \in DOMAIN recs |-> recs[i].configs])
            /\ \A j \in DOMAIN cfgs :
                 \E i \in DOMAIN svcs :
                    \/ cfgs[j].name = svcs[i].name \o HostSuffix
                          /\ cfgs[j].type = "host.v1"
                    \/ cfgs[j].name = svcs[i].name \o InterceptSuffix
                          /\ cfgs[j].type = "intercept.v1"

\* C11 as stated: for every processed service a host.v1 config <svc>-host-v1 is
\* emitted iff the service declares host, an intercept.v1 config
\* <svc>-intercept-v1 iff it declares intercept, and the service record's
\* configs list is exactly the names of the configs emitted for it, host first.
C11_ConfigsIffDeclared == [][ConfigsFollow(Present)]_vars

\* C11 amended: the same, a service counting as declaring host (intercept) when
\* the key is present with a non-empty map under it.
C11_ConfigsIffNonEmpty == [][ConfigsFollow(NonEmpty)]_vars

C11_Witness ==
    /\ Returned /\ ~Falsy(model)
    /\ \E i, j \in DOMAIN Processed :
         /\ Len(out.openziti_services[i].configs) = 2
         /\ Has(Processed[j], "host") /\ Has(Processed[j], "intercept")
         /\ out.openziti_services[j].configs = <<>>
    /\ Len(out.openziti_configs) = 2

\* the intercept declarations a call acts on, and the intercept configs it returns
Intercepting == SelectSeq(Processed, LAMBDA e : NonEmpty(e, "intercept"))
InterceptConfigs(o) == SelectSeq(o.openziti_configs, LAMBDA c : c.type = "intercept.v1")

InterceptNormalized(d, data) ==
    /\ Has(d, "port") =>
          /\ data.portRanges = <<[low |-> d.port, high |-> d.port]>>
          /\ ~Has(data, "port")
    /\ (~Has(d, "port") /\ Has(d, "port_ranges")) => data.portRanges = d.port_ranges
    /\ Has(d, "protocol") =>
          /\ data.protocols = <<d.protocol>>
          /\ ~Has(data, "protocol")
    /\ (~Has(d, "protocol") /\ Has(d, "protocols")) => data.protocols = d.protocols
    /\ (~Has(d, "protocol") /\ ~Has(d, "protocols")) => data.protocols = <<"tcp">>
    /\ Has(d, "address") =>
          /\ data.addresses = <<d.address>>
          /\ ~Has(data, "address")

\* C12: for every intercept declaration a call acts on, the data of the intercept
\* config it returns has portRanges [{low: p, high: p}] and no port key when
\* port p was declared, else the declared port_ranges; protocols [protocol] and
\* no protocol key when protocol was declared, else the declared protocols,
\* else ["tcp"]; addresses [address] and no address key when address was declared.
C12_InterceptNormalized ==
    [][(~Failed(out') /\ ~Falsy(model)) =>
          /\ Len(InterceptConfigs(out')) = Len(Intercepting)
          /\ \A i \in DOMAIN Intercepting :
                /\ InterceptConfigs(out')[i].name = Intercepting[i].name \o InterceptSuffix
                /\ InterceptNormalized(Intercepting[i].intercept,
                                       InterceptConfigs(out')[i].data)]_vars

C12_Witness ==
    /\ Returned /\ calls = 1
    /\ \E c, d \in Range(InterceptConfigs(out)) :
         /\ c.data.portRanges = <<[low |-> 443, high |-> 443]>>
         /\ ~Has(c.data, "port") /\ ~Has(c.data, "address")
         /\ c.data.addresses = <<"b.ziti">> /\ c.data.protocols = <<"tcp">>
         /\ Len(d.data.portRanges) = 2 /\ d.data.protocols = <<"tcp", "udp">>
         /\ ~Has(d.data, "addresses")

\* a role token as the claim wants it referenced
AsRole(r) ==
    IF Len(r) > 0 /\ r[1] \in {"#", "@"} THEN r ELSE <<"#">> \o r
AsRoles(roles) == [i \in DOMAIN roles |-> AsRole(roles[i])]

\* the policy the claim expects of a non-empty bind or dial sub-declaration
ExpectedPolicy(svc, pol, suffix, type) ==
    [name |-> svc.name \o suffix,
     type |-> type,
     identity_roles |->
        AsRoles(IF Has(pol, "roles") THEN pol.roles ELSE <<>>)
        \o (IF Has(pol, "identity") THEN <<<<"#">> \o pol.identity>> ELSE <<>>),
     service_roles |->
        <<<<"#">> \o svc.name>>
        \o AsRoles(IF Has(pol, "service_roles") THEN pol.service_roles ELSE <<>>),
     semantic |-> IF Has(pol, "semantic") THEN pol.semantic ELSE "AnyOf"]

ExpectedPolicies(svc) ==
    IF ~NonEmpty(svc, "policies") THEN <<>>
    ELSE (IF NonEmpty(svc.policies, "bind")
          THEN <<ExpectedPolicy(svc, svc.policies.bind, BindSuffix, "Bind")>> ELSE <<>>)
         \o
         (IF NonEmpty(svc.policies, "dial")
          THEN <<ExpectedPolicy(svc, svc.policies.dial, DialSuffix, "Dial")>> ELSE <<>>)

\* C13: the service policies a call returns are, processed service by processed
\* service, <svc>-bind when policies.bind is present and non-empty and then
\* <svc>-dial when policies.dial is; identity_roles are the declared roles in
\* order, a token prefixed '@' or '#' kept and any other prefixed '#', followed
\* by '#'+identity when identity is given; service_roles are ["#"+svc] followed
\* by the declared service_roles normalized the same way; semantic is "AnyOf"
\* where none is declared.
C13_BindDialPolicies ==
    (Returned /\ ~Falsy(model)) =>
        LET pols == out.openziti_service_policies IN
        [j \in DOMAIN pols |->
            [name |-> pols[j].name, type |-> pols[j].type,
             identity_roles |-> pols[j].identity_roles,
             service_roles |-> pols[j].service_roles,
             semantic |-> pols[j].semantic]]
        = Flatten([i \in DOMAIN Processed |-> ExpectedPolicies(Processed[i])])

C13_Witness ==
    /\ Returned /\ ~Falsy(model)
    /\ \E p, q \in Range(out.openziti_service_policies) :
         /\ p.name = NameC \o DialSuffix
         /\ p.identity_roles = <<<<"#", "b", "o", "b">>>>
         /\ p.semantic = "AnyOf"
         /\ q.service_roles = <<<<"#", "a">>, <<"#", "x">>>>
    /\ \A p \in Range(out.openziti_service_policies) : p.name # NameC \o BindSuffix

\* the host map and the intercept map of every service of a model
ServiceMaps(m) ==
    LET svcs == GetList(m, "services") IN
    [i \in DOMAIN svcs |->
        [host |-> Get(svcs[i], "host", None),
         intercept |-> Get(svcs[i], "intercept", None)]]

\* C17: a call that returns leaves the model it was passed unchanged: every
\* service's host map and intercept map hold after the call exactly the keys
\* and values they held before it.
C17_CompileLeavesModel ==
    [][(calls' = calls + 1 /\ ~Failed(out')) => ServiceMaps(model') = ServiceMaps(model)]_vars

\* the defaults map of the model, empty when the model declares none
DeclaredDefaults == IF NonEmpty(model, "defaults") THEN model.defaults ELSE EmptyMap

\* what a service declares at policies.router: "absent", "false" or "map"
RouterDeclared(svc) ==
    IF ~NonEmpty(svc, "policies") \/ ~Has(svc.policies, "router")
       \/ IsNone(svc.policies.router)
    THEN "absent"
    ELSE IF svc.policies.router = PyFalse THEN "false" ELSE "map"

\* the service-scoped router policy the claim expects of a service, if any
ExpectedRouterPolicy(svc) ==
    LET kind == RouterDeclared(svc)
        sub == IF kind = "map" THEN svc.policies.router ELSE EmptyMap
        wanted ==
            \/ kind = "map"
            \/ kind = "absent" /\ Has(DeclaredDefaults, "create_router_policies")
                                /\ DeclaredDefaults.create_router_policies = TRUE
        roles ==
            IF Has(sub, "roles") /\ sub.roles # <<>> THEN sub.roles
            ELSE IF Has(DeclaredDefaults, "router_roles")
                    /\ DeclaredDefaults.router_roles # <<>>
            THEN DeclaredDefaults.router_roles
            ELSE <<<<"#", "a", "l", "l">>>>
    IN  IF wanted
        THEN <<[name |-> svc.name \o RouterSuffix,
                service_roles |-> <<<<"#">> \o svc.name>>,
                edge_router_roles |-> roles]>>
        ELSE <<>>

\* C21: the service-scoped router policies a call returns are, processed service
\* by processed service, <svc>-router with service_roles ["#"+svc] when
\* policies.router is a map, or is absent while defaults.create_router_policies
\* is true, and none when policies.router is false; edge_router_roles are the
\* map's roles when given, else defaults.router_roles, else ["#all"].
C21_RouterPolicyTriState ==
    (Returned /\ ~Falsy(model)) =>
        LET pols == out.openziti_service_router_policies IN
        [j \in DOMAIN pols |->
            [name |-> pols[j].name, service_roles |-> pols[j].service_roles,
             edge_router_roles |-> pols[j].edge_router_roles]]
        = Flatten([i \in DOMAIN Processed |-> ExpectedRouterPolicy(Processed[i])])

\* defaults ask for router policies: the service with a router map has one with
\* the map's roles, the service with router false has none
C21_Witness ==
    /\ Returned /\ ~Falsy(model)
    /\ Has(DeclaredDefaults, "create_router_policies")
    /\ \E i \in DOMAIN Processed : RouterDeclared(Processed[i]) = "false"
    /\ \E p \in Range(out.openziti_service_router_policies) :
          p.name = NameB \o RouterSuffix /\ p.edge_router_roles = <<<<"p">>>>
    /\ Len(out.openziti_service_router_policies) = 1

\* a token without its leading '#' characters
Unhashed(r) ==
    LET lead == {i \in DOMAIN r : \A j \in 1..i : r[j] = "#"}
    IN  SubSeq(r, Cardinality(lead) + 1, Len(r))
UnhashedAll(roles) == [i \in DOMAIN roles |-> Unhashed(roles[i])]

\* the entry has a list at the key, empty or not
ListPresent(e, key) == Has(e, key)
\* the entry has a list with at least one element at the key
ListGiven(e, key) == Has(e, key) /\ e[key] # <<>>

\* each processed service has a service record whose role_attributes are the
\* role_attributes the service declares, else the roles it declares, each
\* without its leading '#', or its name when it declares neither; and whose
\* encryption_required is the encryption the service declares, else the
\* encryption of the defaults, else true
ServiceRecordsFollow(Declares(_, _)) ==
    (Returned /\ ~Falsy(model)) =>
        /\ Len(out.openziti_services) = Len(Processed)
        /\ \A i \in DOMAIN Processed :
              LET svc == Processed[i]
                  rec == out.openziti_services[i]
              IN  /\ rec.role_attributes =
                        (IF Declares(svc, "role_attributes")
                         THEN UnhashedAll(svc.role_attributes)
                         ELSE IF Declares(svc, "roles") THEN UnhashedAll(svc.roles)
                         ELSE <<svc.name>>)
                  /\ rec.encryption_required =
                        (IF Has(svc, "encryption") THEN svc.encryption
                         ELSE IF Has(DeclaredDefaults, "encryption")
                         THEN DeclaredDefaults.encryption
                         ELSE TRUE)

\* C24 as stated: every emitted service record has role_attributes equal to the
\* declared role_attributes (else the declared roles) with leading '#' stripped,
\* or [<service name>] when neither is declared, and encryption_required equal
\* to the explicit encryption (an explicit false included), else
\* defaults.encryption, else true.
C24_ServiceRecord == ServiceRecordsFollow(ListPresent)

\* C24 amended: the same, role_attributes (roles) counting as declared when the
\* list has at least one element.
C24_ServiceRecordNonEmptyLists == ServiceRecordsFollow(ListGiven)

\* a service with role_attributes and roles and encryption false, none inherited
C24_Witness ==
    /\ Returned /\ ~Falsy(model)
    /\ \E i, j \in DOMAIN Processed :
          /\ ListGiven(Processed[i], "role_attributes") /\ ListGiven(Processed[i], "roles")
          /\ out.openziti_services[i].role_attributes = <<<<"v">>, <<"k">>>>
          /\ out.openziti_services[i].encryption_required = FALSE
          /\ Has(Processed[j], "role_attributes")
          /\ out.openziti_services[j].role_attributes = <<Processed[j].name>>

\* the identities of the model that a call with these targets processes, in order
ProcessedIdentities ==
    SelectSeq(GetList(model, "identities"),
              LAMBDA e : ~Falsy(e) /\ Has(e, "name") /\ should_process(e.name, targets))

\* C25: the identity records a call returns are one per processed identity, in
\* order, null entries yielding none; role_attributes are the declared
\* role_attributes each without its leading '#', followed by the declared tags
\* as they are; type is "Device", enrollment_method "ott" and state "present"
\* where the declaration gives none.
C25_IdentityRecord ==
    (Returned /\ ~Falsy(model)) =>
        /\ Len(out.openziti_identities) = Len(ProcessedIdentities)
        /\ \A i \in DOMAIN ProcessedIdentities :
              LET ident == ProcessedIdentities[i]
                  rec == out.openziti_identities[i]
              IN  /\ rec.name = ident.name
                  /\ rec.role_attributes =
                        UnhashedAll(IF Has(ident, "role_attributes")
                                    THEN ident.role_attributes ELSE <<>>)
                        \o (IF Has(ident, "tags") THEN ident.tags ELSE <<>>)
                  /\ rec.type = (IF Has(ident, "type") THEN ident.type ELSE "Device")
                  /\ rec.enrollment_method =
                        (IF Has(ident, "enrollment_method")
                         THEN ident.enrollment_method ELSE "ott")
                  /\ rec.state = (IF Has(ident, "state") THEN ident.state ELSE "present")

\* a null entry beside an identity with a '#' role attribute and a '#' tag
C25_Witness ==
    /\ Returned /\ ~Falsy(model)
    /\ \E i \in DOMAIN model.identities : IsNone(model.identities[i])
    /\ Len(out.openziti_identities) = 1
    /\ out.openziti_identities[1].role_attributes = <<<<"x">>, <<"#", "t">>>>

\* the call returned a bind, dial or service-scoped router policy for the service
HasDerivedPolicy(svc) ==
    \/ \E p \in Range(out.openziti_service_policies) :
          p.name \in {svc.name \o BindSuffix, svc.name \o DialSuffix}
    \/ \E p \in Range(out.openziti_service_router_policies) :
          p.name = svc.name \o RouterSuffix

\* C27: for every processed service with a bind, dial or service-scoped router
\* policy in the output, the role attribute that the policies' "#<service
\* name>" token names is among the role_attributes of the service record
\* returned by the same call.
C27_ServiceRoleResolves ==
    (Returned /\ ~Falsy(model)) =>
        \A i \in DOMAIN Processed :
            HasDerivedPolicy(Processed[i]) =>
                Processed[i].name \in Range(out.openziti_services[i].role_attributes)

UnnormalizedKeys == {"port", "port_ranges", "protocol", "address"}

\* C28: the data of every intercept.v1 config returned has none of the keys
\* port, port_ranges, protocol and address.
C28_NoUnnormalizedKeys ==
    Returned =>
        \A c \in Range(InterceptConfigs(out)) : DOMAIN c.data \cap UnnormalizedKeys = {}

---------------------------------------------------------------------------
(* Claims about the Loader and the Resolver, checked under SpecLoader *)

\* the loader has run with scoping in force
Scoped == pc = "loaded" /\ smart /\ hasGit

\* every git command the loader ran was answered by git
GitAnswered == gitFails = {}

\* the entries a file content declares at a key of its (possibly wrapped) root
DeclaredAt(content, key) ==
    IF content.file # "yaml" THEN {}
    ELSE LET root == IF Has(content.doc, "ziti_deployment")
                     THEN content.doc.ziti_deployment ELSE content.doc
         IN  IF Has(root, key) THEN Range(root[key]) ELSE {}

AbsentNamed(records, name) ==
    \E r \in Range(records) : r.name = name /\ r.state = "absent"

DeclaresPolicy(e, kind) ==
    Has(e, "policies") /\ Has(e.policies, kind) /\ DOMAIN e.policies[kind] # {}

\* C4: every service and identity of a recovered deleted fragment is in the merged
\* model with state "absent", its name is in the target set, and the compile
\* with that target set returns for it a record with state "absent", as it does
\* for every config and policy the service declares.
C4_DeletedForcedAbsent ==
    Scoped =>
      \A t \in DOMAIN recovered : recovered[t] # NoContent =>
        /\ \A e \in DeclaredAt(recovered[t], "services") :
             /\ \E m \in Range(model.services) :
                  m.name = e.name /\ Has(m, "state") /\ m.state = "absent"
             /\ e.name \in targets.names
             /\ Returned =>
                  /\ AbsentNamed(out.openziti_services, e.name)
                  /\ Has(e, "host") =>
                       AbsentNamed(out.openziti_configs, e.name \o HostSuffix)
                  /\ Has(e, "intercept") =>
                       AbsentNamed(out.openziti_configs, e.name \o InterceptSuffix)
                  /\ DeclaresPolicy(e, "bind") =>
                       AbsentNamed(out.openziti_service_policies, e.name \o BindSuffix)
                  /\ DeclaresPolicy(e, "dial") =>
                       AbsentNamed(out.openziti_service_policies, e.name \o DialSuffix)
                  /\ DeclaresPolicy(e, "router") =>
                       AbsentNamed(out.openziti_service_router_policies,
                                   e.name \o RouterSuffix)
        /\ \A e \in DeclaredAt(recovered[t], "identities") :
             /\ \E m \in Range(model.identities) :
                  m.name = e.name /\ Has(m, "state") /\ m.state = "absent"
             /\ e.name \in targets.names
             /\ Returned => AbsentNamed(out.openziti_identities, e.name)

C4_Witness ==
    /\ Scoped /\ Returned
    /\ \E t \in DOMAIN recovered :
         /\ recovered[t] # NoContent
         /\ work[t[1]] = NoFile
         /\ \E e \in DeclaredAt(recovered[t], "services") :
              /\ Has(e, "state") /\ e.state = "present" /\ Has(e, "host")
              /\ AbsentNamed(out.openziti_configs, e.name \o HostSuffix)

UsedDiff == \E i \in DOMAIN queries : queries[i].cmd = "diff"

\* C5: for every path classified deleted, by the working-tree report or by the
\* comparison of the two most recent revisions, the content retrieved is the
\* content the path had at the revision before its deletion.
C5_DeletedRecoveredFromPriorRevision ==
    (Scoped /\ GitAnswered) =>
      \A t \in deleted_files :
        recovered[t] = (IF UsedDiff THEN prev[t[1]] ELSE head[t[1]])

DeletionStatus(status) == status \in {<<"D", " ">>, <<" ", "D">>, <<"D">>}

\* the report the classification is drawn from
ReportUsed == IF GitStatus.stdout # {} THEN GitStatus.stdout ELSE GitDiff.stdout

\* C6: for every fragment file in the tree that the report lists with a status
\* other than deletion (a rename under its new path), the name of every entry of
\* its services and identities is in the target set.
C6_ChangedNamesTargeted ==
    (Scoped /\ GitAnswered) =>
      \A l \in ReportUsed :
        LET p == l.text[Len(l.text)] IN
        (~DeletionStatus(l.status) /\ work[p] # NoFile) =>
          \A e \in DeclaredAt(work[p], "services") \cup DeclaredAt(work[p], "identities") :
            e.name \in targets.names

\* C7: without scoping (not requested, or no .git at the base) the loader runs no
\* git query, recovers nothing, returns None as the target set, warns exactly
\* when scoping was requested, and the compile emits a record for every
\* declared service and identity.
C7_UnscopedProcessesAll ==
    (pc = "loaded" /\ (~smart \/ ~hasGit)) =>
        /\ queries = <<>>
        /\ DOMAIN recovered = {}
        /\ IsNone(targets)
        /\ (warnings # <<>>) = smart
        /\ Returned =>
             /\ \A e \in Range(Named(GetList(model, "services"))) :
                  \E r \in Range(out.openziti_services) : r.name = e.name
             /\ \A e \in Range(Named(GetList(model, "identities"))) :
                  \E r \in Range(out.openziti_identities) : r.name = e.name

C7_Witness ==
    /\ pc = "loaded" /\ smart /\ ~hasGit /\ Returned
    /\ warnings # <<>>
    /\ Len(out.openziti_services) >= 2
    /\ Len(out.openziti_identities) >= 2

\* the loader has returned a model that no compile has touched yet
Loaded == pc = "loaded" /\ calls = 0

\* C14: the merged model's sequence at a key is the concatenation, in merge
\* order, of the sequences the merged fragments hold at that key, duplicates
\* kept; a key no fragment holds is not in the model.
C14_SequencesConcatenate ==
    Loaded =>
      \A k \in ListKeys :
        IF \E i \in DOMAIN merged : Has(merged[i], k)
        THEN /\ Has(model, k)
             /\ model[k] = Flatten([i \in DOMAIN merged |-> GetList(merged[i], k)])
        ELSE ~Has(model, k)

\* the same fragment merged twice: its one services entry is there twice
C14_Witness ==
    /\ Loaded
    /\ Len(merged) = 2 /\ merged[1] = merged[2]
    /\ Has(merged[1], "services") /\ Len(merged[1].services) = 1
    /\ model.services = <<merged[1].services[1], merged[1].services[1]>>

\* the loader ran with scoping in force and a git command failed on it
QueryFailed == pc # "idle" /\ smart /\ hasGit /\ gitFails # {}

\* what a fragment file contributes to the model
FragmentOf(content) ==
    IF content.file # "yaml" THEN EmptyMap
    ELSE IF Has(content.doc, "ziti_deployment") THEN content.doc.ziti_deployment
    ELSE content.doc

\* the fragments of the files in the tree were merged, each once, before any other
PresentMerged ==
    \E order \in Orders(PresentPaths) :
        /\ Len(merged) >= Len(order)
        /\ \A i \in DOMAIN order : merged[i] = FragmentOf(work[order[i]])

\* C15: a git command that exits non-zero is taken to have returned no line: the
\* run ends in an exception only when a file of the tree is not YAML; otherwise
\* every fragment in the tree is merged and the target set returned is a set
\* (not None); a failed status leads to the diff, a failed diff to an empty
\* classification and an empty target set, a failed show to nothing recovered.
C15_FailedQueryNoLines ==
    QueryFailed =>
        /\ (pc = "crashed") = (\E p \in Paths : work[p] = BadYaml)
        /\ pc = "loaded" =>
              /\ PresentMerged
              /\ ~IsNone(targets)
              /\ "status" \in gitFails => UsedDiff
              /\ "diff" \in gitFails =>
                    /\ changed_files = {} /\ deleted_files = {}
                    /\ targets.names = {}
              /\ "show" \in gitFails =>
                    \A t \in DOMAIN recovered : recovered[t] = NoContent

\* both classification queries fail over a tree with an uncommitted edit
C15_Witness ==
    /\ QueryFailed /\ pc = "loaded" /\ calls = 0
    /\ gitFails = {"status", "diff"}
    /\ work # head
    /\ Len(merged) = 2 /\ Has(model, "services")
    /\ targets = [names |-> {}]

\* the loader ran with scoping in force
RanScoped == pc # "idle" /\ smart /\ hasGit

\* C18: git diff HEAD~1 HEAD is run only when git status returned no line; when
\* git status returns at least one line, the paths classified changed or
\* deleted are exactly the paths of its lines, so that what the latest
\* revision committed adds nothing to either set.
C18_DiffOnlyWhenStatusEmpty ==
    RanScoped =>
        /\ UsedDiff => (GitStatus.stdout = {} \/ "status" \in gitFails)
        /\ (GitStatus.stdout # {} /\ "status" \notin gitFails) =>
              /\ ~UsedDiff
              /\ changed_files \cup deleted_files = {l.text : l \in GitStatus.stdout}

\* an uncommitted edit of one path after a revision that committed the other
C18_Witness ==
    /\ RanScoped /\ pc = "loaded" /\ GitAnswered
    /\ changed_files # {}
    /\ \E p \in Paths :
          /\ prev[p] # head[p] /\ head[p] = work[p]
          /\ <<p>> \notin changed_files \cup deleted_files

\* the top-level names of the services and identities a file content declares
TopLevelNames(content) ==
    {e.name : e \in {x \in DeclaredAt(content, "services")
                           \cup DeclaredAt(content, "identities") : Has(x, "name")}}

\* the names of the services declared in the tree or in a recovered fragment
ServiceNames ==
    {e.name : e \in UNION ({DeclaredAt(work[p], "services") : p \in Paths}
                          \cup {DeclaredAt(recovered[t], "services") :
                                    t \in DOMAIN recovered})}

\* C19: with scoping in force, every name of the returned target set is the
\* top-level name of a services or identities entry of a file of the tree that
\* is classified changed, or of a recovered deleted fragment; no name comes
\* from a file that is not classified, and no name of the set is the name of a
\* config or policy derived from a service.
C19_TargetsAreTopLevelNames ==
    Scoped =>
      \A n \in targets.names :
        /\ \/ \E p \in Paths : <<p>> \in changed_files /\ n \in TopLevelNames(work[p])
           \/ \E t \in DOMAIN recovered : n \in TopLevelNames(recovered[t])
        /\ ~DerivedFrom(n, ServiceNames,
                        {HostSuffix, InterceptSuffix, BindSuffix, DialSuffix, RouterSuffix})

\* one file changed, its service (which has a host config) targeted; the other
\* file unchanged, its names left out
C19_Witness ==
    /\ Scoped /\ GitAnswered
    /\ \E p, q \in Paths :
          /\ <<p>> \in changed_files /\ <<q>> \notin changed_files
          /\ \E e \in DeclaredAt(work[p], "services") :
                Has(e, "host") /\ e.name \in targets.names
          /\ TopLevelNames(work[q]) # {}
          /\ TopLevelNames(work[q]) \cap targets.names = {}

\* the recovery of a deleted path gave no content, or content that is not YAML
Unrecoverable(t) == recovered[t] = NoContent \/ recovered[t] = BadYaml

WarnedAbout(t) ==
    \E i \in DOMAIN warnings : Has(warnings[i], "path") /\ warnings[i].path = t

\* C20: for every path classified deleted whose recovery gives no content or
\* content that does not parse, the loader emits a warning about the path and
\* merges nothing for it, so that the fragments merged are those of the files
\* of the tree and of the other deleted paths; and the run completes.
C20_UnrecoverableWarnedAndSkipped ==
    Scoped =>
        /\ \A t \in deleted_files : Unrecoverable(t) => WarnedAbout(t)
        /\ Len(merged) = Cardinality(PresentPaths)
                           + Cardinality({t \in deleted_files : ~Unrecoverable(t)})

\* the scalar keys the fragments declare, all under defaults
ScalarKeys == {"encryption", "create_router_policies"}

\* the positions in merged of the fragments that declare defaults.k
Declaring(k) ==
    {i \in DOMAIN merged : Has(merged[i], "defaults") /\ Has(merged[i].defaults, k)}

LastOf(positions) == CHOOSE i \in positions : \A j \in positions : j <= i

\* C22: after a load, a scalar declared by several fragments at the same key
\* path has in the merged model the value of the fragment merged last, a scalar
\* no fragment declares is not in the model, and the only warnings of the run
\* are those of the git check and of the recovery of deleted files.
C22_LastFragmentWins ==
    Loaded =>
        /\ \A k \in ScalarKeys :
              IF Declaring(k) = {}
              THEN ~(Has(model, "defaults") /\ Has(model.defaults, k))
              ELSE /\ Has(model, "defaults") /\ Has(model.defaults, k)
                   /\ model.defaults[k] = merged[LastOf(Declaring(k))].defaults[k]
        /\ Range(warnings) \subseteq
              {NoGitWarning} \cup {ParseWarning(t) : t \in DOMAIN recovered}

\* two fragments gave different values for defaults.encryption and the model
\* holds the second one's
C22_Witness ==
    /\ Loaded
    /\ Declaring("encryption") = {1, 2}
    /\ merged[1].defaults.encryption # merged[2].defaults.encryption
    /\ model.defaults.encryption = merged[2].defaults.encryption

\* deep_merge applied in turn to the fragments of seq that are not empty
RECURSIVE MergeNonEmpty(_, _, _)
MergeNonEmpty(acc, seq, i) ==
    IF i > Len(seq) THEN acc
    ELSE MergeNonEmpty(IF seq[i] = EmptyMap THEN acc ELSE deep_merge(acc, seq[i]),
                       seq, i + 1)

EmptyPaths == {p \in Paths : work[p] = EmptyFile}

\* C23: a path with no file and an empty file load as the empty document, and
\* merging the empty document changes neither the merged model nor the target
\* names: after a load the model is the merge of the non-empty fragments alone,
\* and every target name is declared by a non-empty fragment.
C23_EmptyDocumentLeavesModel ==
    Loaded =>
        /\ \A p \in Paths :
              work[p] \in {NoFile, EmptyFile} =>
                  /\ load_yaml_file(work, p) = EmptyMap
                  /\ deep_merge(model, load_yaml_file(work, p)) = model
                  /\ extract_names(load_yaml_file(work, p)) = {}
        /\ Cardinality({i \in DOMAIN merged : merged[i] = EmptyMap})
              >= Cardinality(EmptyPaths)
        /\ model = MergeNonEmpty(EmptyMap, merged, 1)
        /\ ~IsNone(targets) =>
              targets.names \subseteq
                  UNION {extract_names(merged[i]) :
                            i \in {j \in DOMAIN merged : merged[j] # EmptyMap}}

\* an empty file was loaded and merged after a fragment that declares something,
\* and another path has no file
C23_Witness ==
    /\ Loaded
    /\ Len(merged) = 2 /\ merged[1] # EmptyMap /\ merged[2] = EmptyMap
    /\ model # EmptyMap
    /\ ~IsNone(targets) /\ targets.names # {}

PresentNamed(records, name) ==
    \E r \in Range(records) : r.name = name /\ r.state = "present"

\* the names that a recovered deleted fragment declares at key and that a fragment
\* still in the tree declares at key too
MovedNames(key) ==
    {e.name : e \in {d \in UNION {DeclaredAt(recovered[t], key) : t \in DOMAIN recovered} :
                        Has(d, "name")}}
    \cap
    {e.name : e \in {d \in UNION {DeclaredAt(work[p], key) : p \in Paths} :
                        Has(d, "name")}}

\* C26: with scoping enabled, for a service or identity name that a recovered
\* deleted fragment and a fragment still in the tree both declare, the compile
\* does not return both a record with state "present" and a record with state
\* "absent".
C26_MovedEntryNotDeleted ==
    (Scoped /\ Returned) =>
        /\ \A n \in MovedNames("services") :
              ~(PresentNamed(out.openziti_services, n)
                /\ AbsentNamed(out.openziti_services, n))
        /\ \A n \in MovedNames("identities") :
              ~(PresentNamed(out.openziti_identities, n)
                /\ AbsentNamed(out.openziti_identities, n))

---------------------------------------------------------------------------
(* Claims about openziti_router_policy, checked under SpecController *)

Requested(p, mp) ==
    /\ p.name = mp.policy_name
    /\ p.edgeRouterRoles = mp.edge_router_roles
    /\ p.identityRoles = mp.identity_roles
    /\ p.semantic = mp.semantic

\* C16: a run with state=present (not in check mode, the controller answering)
\* for a name the controller holds with edge_router_roles, identity_roles or
\* semantic other than the requested ones leaves the controller's policy of
\* that name with the requested values and reports changed=true.
C16_ExistingPolicyUpdated ==
    [][(/\ runs' = runs + 1
        /\ ~result'.failed /\ params'.state = "present" /\ ~params'.check_mode
        /\ \E p \in edge_router_policies :
              p.name = params'.policy_name /\ ~Requested(p, params'))
       => (/\ \A p \in edge_router_policies' :
                 p.name = params'.policy_name => Requested(p, params')
           /\ result'.changed)]_vars

---------------------------------------------------------------------------
(* Claims about the reconciliation modules, checked under SpecModules *)

Writes(reqs) == {i \in DOMAIN reqs : reqs[i].method \in {"POST", "PUT", "DELETE"}
                                      /\ reqs[i].path # "authenticate"}

\* C29: a run that follows, with the same parameters, a run with state present
\* (not in check mode) that did not fail reports changed = false and sends the
\* controller no create, update or delete request, whichever of the two forms
\* the controller gives an identity's type in.
C29_SecondRunChangesNothing ==
    [][(/\ runs' = runs + 1
        /\ runs >= 1
        /\ params' = params
        /\ params.state = "present" /\ ~params.check_mode
        /\ ~result.failed)
       => (/\ ~result'.failed
           /\ ~result'.changed
           /\ Writes(requests') = {})]_vars

---------------------------------------------------------------------------
(* Claims about deep_merge, checked under SpecMerge *)

\* C30: deep_merge returns the accumulator, without an exception, for every
\* accumulator and every source document made of dicts, lists and scalars.
C30_MergeCompletes ==
    ret # NoMerge => (~Failed(ret) /\ ret = accumulator)

====
